---------------------------- MODULE Spec2Model ----------------------------
(***************************************************************************)
(* A model of kticket's concurrent-safe record store: the advisory file    *)
(* lock (internal/filelock), the record codec and atomic write             *)
(* (internal/ticket), the store (internal/store) and the status commands   *)
(* (internal/cmd/status.go).                                               *)
(*                                                                         *)
(* Strings are sequences of one-character strings, so that substring and   *)
(* glob matching are computed, not assumed.  A process is one caller       *)
(* (a goroutine or an OS process); it runs one call at a time, and every   *)
(* step that touches the file system or a lock is one action.              *)
(***************************************************************************)
EXTENDS Integers, Sequences, FiniteSets, TLC

VARIABLES
    files,    \* the store directory: file name (record id) -> [exists, data]
    tmp,      \* per process: the temp file of its atomicWrite in progress
    locks,    \* the flock table: set of [path, owner, shared, mode]
    pc,       \* per process: the label it is at
    stk,      \* per process: the return labels of the calls in progress
    lpath,    \* per process: acquire's path argument
    lshared,  \* per process: acquire's shared argument
    err,      \* per process: the error of the call that last returned ("" is nil)
    aid,      \* per process: the id argument of the store call in progress
    tk,       \* per process: the ticket a call returns or is given
    lt,       \* per process: its LockedTicket
    op,       \* per process: the top-level call it runs or ran last
    wpath,    \* per process: atomicWrite's destination (a record id)
    wdata,    \* per process: atomicWrite's data
    fn,       \* per process: the mutator given to Update
    part,     \* per process: Resolve's partial argument
    matches,  \* per process: Resolve's glob matches
    todo,     \* per process: the ids a batch command has still to process
    cmd,      \* per process: the command it runs: [name, status, validateClose]
    out,      \* per process: the command's statusResult, one entry per id
    calls,    \* per process: how many top-level calls it started
    ids,      \* per process: the ids a command was given, resolved or selected
    locked,   \* per process: the LockedTickets a command holds, in order
    listed,   \* per process: the tickets Store.List or Parse has read
    hist,     \* ghost: record id -> the tickets whose write to it was committed
    gate      \* ghost: record id -> how far the close/pass/close scenario went

vars == <<files, tmp, locks, pc, stk, lpath, lshared, err, aid, tk, lt, op,
          wpath, wdata, fn, part, matches, todo, cmd, out, calls, ids, locked,
          listed, hist, gate>>

batchVars == <<ids, locked, listed>>
cmdVars == <<part, matches, todo, cmd, out, gate, batchVars>>
writeVars == <<files, tmp, wpath, wdata, hist>>
storeVars == <<files, tmp, aid, tk, lt, wpath, wdata, fn, part, matches, todo,
               cmd, out, hist, gate, batchVars>>

(***************************************************************************)
(* Bounds of the model.                                                    *)
(***************************************************************************)
NumHolders == 2     \* callers of the lock specification

Holders == 1..NumHolders

\* An error is the chain of its messages, outermost first; nil is empty.
NoErr == <<>>
Wrap(msg, e) == <<msg>> \o e

\* ctx.Err() of a context that was cancelled.
ErrCanceled == <<"context canceled">>

\* acquire's error when the context ends before the lock is taken.
ErrDeadline == Wrap("acquire lock", <<"context deadline exceeded">>)

(***************************************************************************)
(* internal/filelock                                                       *)
(***************************************************************************)

\* The flock(2) operation acquire asks for: LOCK_SH for a shared Lock,
\* LOCK_EX otherwise.
AcquireModeAlwaysShared(shared) == "R"

AcquireMode(shared) == IF shared THEN "R" ELSE "W"

\* flock(2) that refuses nothing.
CompatibleAlways(L, path, mode) == TRUE

\* flock(2): an exclusive request is granted when no open file description
\* holds a lock on the path, a shared request when none holds it exclusively.
Compatible(L, path, mode) ==
    IF mode = "W"
    THEN \A l \in L : l.path # path
    ELSE \A l \in L : l.path = path => l.mode = "R"

\* The Lock value acquire returns, as an entry of the flock table.
LockEntry(p, path, shared) ==
    [path |-> path, owner |-> p, shared |-> shared, mode |-> AcquireMode(shared)]

\* Lock.Release: flock.Unlock drops the holder's lock on the path.
UnlockKeeps(L, p, path) == L

Unlock(L, p, path) == {l \in L : ~(l.owner = p /\ l.path = path)}

Holds(p, path) == \E l \in locks : l.owner = p /\ l.path = path

\* A call returns to the label on top of the stack with error e.
Return(p, e) ==
    /\ pc' = [pc EXCEPT ![p] = Head(stk[p])]
    /\ stk' = [stk EXCEPT ![p] = Tail(stk[p])]
    /\ err' = [err EXCEPT ![p] = e]

\* A call of acquire(ctx, path, shared) that returns to label ret.
CallAcquire(p, path, shared, ret) ==
    /\ pc' = [pc EXCEPT ![p] = "acquire"]
    /\ stk' = [stk EXCEPT ![p] = <<ret>> \o stk[p]]
    /\ lpath' = [lpath EXCEPT ![p] = path]
    /\ lshared' = [lshared EXCEPT ![p] = shared]

\* acquire returns: its path and shared arguments go out of scope.
AcquireLocalsEnd(p) ==
    /\ lpath' = [lpath EXCEPT ![p] = <<>>]
    /\ lshared' = [lshared EXCEPT ![p] = FALSE]

\* acquire: the first attempt of TryLockContext / TryRLockContext.  It either
\* takes the lock or goes to wait for the retry delay or the deadline.
AcquireTry(p) ==
    /\ pc[p] = "acquire"
    /\ IF Compatible(locks, lpath[p], AcquireMode(lshared[p]))
       THEN /\ locks' = locks \cup {LockEntry(p, lpath[p], lshared[p])}
            /\ Return(p, NoErr)
            /\ AcquireLocalsEnd(p)
       ELSE /\ pc' = [pc EXCEPT ![p] = "acquire_wait"]
            /\ UNCHANGED <<locks, stk, err, lpath, lshared>>
    /\ UNCHANGED <<op, calls>>
    /\ UNCHANGED storeVars

\* acquire: a later attempt, after the retry delay, that finds the lock free.
AcquireRetry(p) ==
    /\ pc[p] = "acquire_wait"
    /\ Compatible(locks, lpath[p], AcquireMode(lshared[p]))
    /\ locks' = locks \cup {LockEntry(p, lpath[p], lshared[p])}
    /\ Return(p, NoErr)
    /\ AcquireLocalsEnd(p)
    /\ UNCHANGED <<op, calls>>
    /\ UNCHANGED storeVars

\* acquire: the context it waits with has a deadline: the caller's, or
\* DefaultTimeout from now.
AcquireNoDeadline == FALSE

AcquireHasDeadline == TRUE

\* acquire: the context's deadline (DefaultTimeout when the caller set none)
\* passes while waiting; the call returns an error and holds nothing.
AcquireTimeout(p) ==
    /\ pc[p] = "acquire_wait"
    /\ AcquireHasDeadline
    /\ Return(p, ErrDeadline)
    /\ AcquireLocalsEnd(p)
    /\ UNCHANGED <<locks, op, calls>>
    /\ UNCHANGED storeVars

(***************************************************************************)
(* The lock specification: callers of the filelock package alone.          *)
(***************************************************************************)
LockPaths == {<<"a", ".lock">>, <<"b", ".lock">>}

\* filelock.Acquire(path) / filelock.AcquireShared(path) by an idle caller.
LockCall(p) ==
    /\ pc[p] = "idle"
    /\ \E path \in LockPaths, shared \in BOOLEAN :
          /\ ~Holds(p, path)
          /\ CallAcquire(p, path, shared, "idle")
    /\ op' = [op EXCEPT ![p] = ""]
    /\ aid' = [aid EXCEPT ![p] = <<>>]
    /\ UNCHANGED <<locks, err, calls>>
    /\ UNCHANGED <<writeVars, tk, lt, fn, cmdVars>>

\* TryAcquire(path) (shared false) / TryAcquireShared(path) (shared true):
\* one attempt of flock.TryLock / TryRLock, no waiting; a contended lock is
\* (nil, nil).  op and aid keep the call and its path for the caller.
TryAcquireOn(p, path, shared) ==
    /\ pc[p] = "idle"
    /\ ~Holds(p, path)
    /\ locks' = IF Compatible(locks, path, IF shared THEN "R" ELSE "W")
                THEN locks \cup {[path |-> path, owner |-> p, shared |-> shared,
                                  mode |-> IF shared THEN "R" ELSE "W"]}
                ELSE locks
    /\ err' = [err EXCEPT ![p] = NoErr]
    /\ op' = [op EXCEPT ![p] = IF shared THEN "TryAcquireShared" ELSE "TryAcquire"]
    /\ aid' = [aid EXCEPT ![p] = path]
    /\ UNCHANGED <<pc, stk, lpath, lshared, calls>>
    /\ UNCHANGED <<writeVars, tk, lt, fn, cmdVars>>

TryAcquire(p) ==
    \E path \in LockPaths, shared \in BOOLEAN : TryAcquireOn(p, path, shared)

\* Lock.Release by the holder.
LockRelease(p) ==
    /\ pc[p] = "idle"
    /\ \E l \in locks :
          /\ l.owner = p
          /\ locks' = Unlock(locks, p, l.path)
    /\ err' = [err EXCEPT ![p] = NoErr]
    /\ op' = [op EXCEPT ![p] = ""]
    /\ aid' = [aid EXCEPT ![p] = <<>>]
    /\ UNCHANGED <<pc, stk, lpath, lshared, calls>>
    /\ UNCHANGED <<writeVars, tk, lt, fn, cmdVars>>

NoTicket == [nil |-> TRUE]
NoFile == [exists |-> FALSE, data |-> <<>>]
NoHandle == [Ticket |-> NoTicket, id |-> <<>>, held |-> FALSE, base |-> NoTicket,
             released |-> FALSE]
NoCmd == [name |-> "", status |-> "", validateClose |-> FALSE]
NoResult == [Updated |-> <<>>, Errors |-> <<>>]

\* The callers P before any call: every local is empty.
InitProcs(P) ==
    /\ tmp = [p \in P |-> NoFile]
    /\ pc = [p \in P |-> "idle"]
    /\ stk = [p \in P |-> <<>>]
    /\ lpath = [p \in P |-> <<>>]
    /\ lshared = [p \in P |-> FALSE]
    /\ err = [p \in P |-> NoErr]
    /\ aid = [p \in P |-> <<>>]
    /\ tk = [p \in P |-> NoTicket]
    /\ lt = [p \in P |-> NoHandle]
    /\ op = [p \in P |-> ""]
    /\ wpath = [p \in P |-> <<>>]
    /\ wdata = [p \in P |-> <<>>]
    /\ fn = [p \in P |-> ""]
    /\ part = [p \in P |-> <<>>]
    /\ matches = [p \in P |-> {}]
    /\ todo = [p \in P |-> <<>>]
    /\ cmd = [p \in P |-> NoCmd]
    /\ out = [p \in P |-> NoResult]
    /\ calls = [p \in P |-> 0]
    /\ ids = [p \in P |-> <<>>]
    /\ locked = [p \in P |-> <<>>]
    /\ listed = [p \in P |-> <<>>]

InitLock ==
    /\ InitProcs(Holders)
    /\ files = <<>>
    /\ locks = {}
    /\ hist = <<>>
    /\ gate = <<>>

NextLock ==
    \E p \in Holders :
        \/ LockCall(p)
        \/ AcquireTry(p)
        \/ AcquireRetry(p)
        \/ AcquireTimeout(p)
        \/ TryAcquire(p)
        \/ LockRelease(p)

SpecLock == InitLock /\ [][NextLock]_vars

\* C14: TryAcquire and TryAcquireShared on a path whose exclusive lock is
\* held return at once a nil Lock and a nil error, taking nothing; on a path
\* that nobody holds they return the lock.
C14_TryAcquire ==
    [][\A p \in Holders : \A path \in LockPaths : \A shared \in BOOLEAN :
          TryAcquireOn(p, path, shared) =>
              IF \E l \in locks : l.path = path /\ ~l.shared
              THEN /\ locks' = locks
                   /\ err'[p] = NoErr
                   /\ pc'[p] = "idle"
              ELSE IF \A l \in locks : l.path # path
                   THEN /\ \E l \in locks' : /\ l.owner = p /\ l.path = path
                                             /\ l.shared = shared
                        /\ err'[p] = NoErr
                        /\ pc'[p] = "idle"
                   ELSE TRUE]_vars

\* C14's case: a caller's TryAcquire or TryAcquireShared has returned nil,
\* nil on a path whose exclusive lock another caller holds, while on the
\* other path a try has returned the lock.
C14_Witness ==
    \E p \in Holders : \E q \in Holders : \E path \in LockPaths :
        /\ p # q
        /\ [path |-> path, owner |-> p, shared |-> FALSE, mode |-> "W"] \in locks
        /\ op[q] \in {"TryAcquire", "TryAcquireShared"}
        /\ aid[q] = path /\ ~Holds(q, path) /\ err[q] = NoErr
        /\ op[p] \in {"TryAcquire", "TryAcquireShared"} /\ Holds(p, aid[p])

\* C3: on every lock path, a holder of the exclusive lock is the only holder
\* of any lock on that path; only shared holders ever share a path.
C3_ExclusiveExcludes ==
    \A l1 \in locks : \A l2 \in locks :
        (l1.path = l2.path /\ l1 # l2) => (l1.shared /\ l2.shared)

\* C3's case: two callers hold the shared lock on one path at the same time,
\* while on another path one of them holds the exclusive lock and the other
\* waits for it.
C3_Witness ==
    \E path \in LockPaths : \E other \in LockPaths : \E p \in Holders : \E q \in Holders :
        /\ p # q
        /\ [path |-> path, owner |-> p, shared |-> TRUE, mode |-> "R"] \in locks
        /\ [path |-> path, owner |-> q, shared |-> TRUE, mode |-> "R"] \in locks
        /\ [path |-> other, owner |-> p, shared |-> FALSE, mode |-> "W"] \in locks
        /\ pc[q] = "acquire_wait" /\ lpath[q] = other

(***************************************************************************)
(* internal/ticket: the record, its codec and the atomic write             *)
(***************************************************************************)
StatusOpen == "open"
StatusInProgress == "in_progress"
StatusClosed == "closed"

\* Marshal: the YAML frontmatter between the --- lines, then the markdown
\* body.  The data is the sequence of these two parts; a prefix of it is what
\* a short write leaves.
Marshal(t) ==
    << [id |-> t.ID, status |-> t.Status, priority |-> t.Priority,
        tests_passed |-> t.TestsPassed, parent |-> t.Parent, deps |-> t.Deps,
        links |-> t.Links, created |-> t.Created],
       [title |-> t.Title, tests |-> t.Tests] >>

ErrEmptyFile == <<"empty file">>
ErrNotExist == <<"open", "no such file or directory">>

\* Parse: splitFrontmatter fails on empty data; the frontmatter gives the
\* header fields; parseBody gives the sections, each empty when the body
\* does not hold it.
Parse(data) ==
    IF Len(data) = 0
    THEN [t |-> NoTicket, err |-> ErrEmptyFile]
    ELSE LET h == data[1]
             b == IF Len(data) >= 2 THEN data[2] ELSE [title |-> "", tests |-> ""]
         IN  [t |-> [ID |-> h.id, Status |-> h.status, Priority |-> h.priority,
                     TestsPassed |-> h.tests_passed, Parent |-> h.parent,
                     Deps |-> h.deps, Links |-> h.links, Created |-> h.created,
                     Title |-> b.title, Tests |-> b.tests],
              err |-> NoErr]

\* ParseFile: os.ReadFile, then Parse.
ParseFile(F, id) ==
    IF id \in DOMAIN F /\ F[id].exists
    THEN Parse(F[id].data)
    ELSE [t |-> NoTicket, err |-> ErrNotExist]

\* Ticket.CanClose.
CanCloseAlways(t) == NoErr

CanClose(t) ==
    IF t.Tests # "" /\ ~t.TestsPassed
    THEN <<"cannot close: tests not passed">>
    ELSE NoErr

\* atomicWrite: tmp.Write(data) writes all of data (or fails).
WriteDataShort(data) == SubSeq(data, 1, Len(data) - 1)

WriteData(data) == data

\* WriteFile(path, t): Marshal, then atomicWrite to the record file of id;
\* returns to label ret.
CallWrite(p, id, t, ret) ==
    /\ pc' = [pc EXCEPT ![p] = "aw_create"]
    /\ stk' = [stk EXCEPT ![p] = <<ret>> \o stk[p]]
    /\ wpath' = [wpath EXCEPT ![p] = id]
    /\ wdata' = [wdata EXCEPT ![p] = Marshal(t)]

\* atomicWrite returns: its locals go out of scope.
WriteLocalsEnd(p) ==
    /\ wpath' = [wpath EXCEPT ![p] = <<>>]
    /\ wdata' = [wdata EXCEPT ![p] = <<>>]

\* os.CreateTemp(dir, ".kt-*.tmp") makes a file of a new name in the
\* directory F: the file at path is not opened and keeps its content.
CreateTempInPlace(F, path) == [F EXCEPT ![path] = [exists |-> TRUE, data |-> <<>>]]

CreateTemp(F, path) == F

\* atomicWrite: os.CreateTemp in the record's directory.
AwCreate(p) ==
    /\ pc[p] = "aw_create"
    /\ tmp' = [tmp EXCEPT ![p] = [exists |-> TRUE, data |-> <<>>]]
    /\ files' = CreateTemp(files, wpath[p])
    /\ pc' = [pc EXCEPT ![p] = "aw_write"]
    /\ UNCHANGED <<wpath, wdata, hist, stk, err>>
    /\ UNCHANGED <<locks, lpath, lshared, aid, tk, lt, op, fn, calls, cmdVars>>

\* atomicWrite: tmp.Write(data).
AwWrite(p) ==
    /\ pc[p] = "aw_write"
    /\ tmp' = [tmp EXCEPT ![p].data = WriteData(wdata[p])]
    /\ pc' = [pc EXCEPT ![p] = "aw_close"]
    /\ UNCHANGED <<files, wpath, wdata, hist, stk, err>>
    /\ UNCHANGED <<locks, lpath, lshared, aid, tk, lt, op, fn, calls, cmdVars>>

\* atomicWrite: tmp.Close and os.Chmod, which leave the content alone.
AwClose(p) ==
    /\ pc[p] = "aw_close"
    /\ pc' = [pc EXCEPT ![p] = "aw_rename"]
    /\ UNCHANGED <<files, tmp, wpath, wdata, hist, stk, err>>
    /\ UNCHANGED <<locks, lpath, lshared, aid, tk, lt, op, fn, calls, cmdVars>>

\* atomicWrite: os.Rename puts the temp file in place of the record file.
\* hist, where it is kept, records the ticket whose data the caller gave.
AwRename(p) ==
    /\ pc[p] = "aw_rename"
    /\ files' = [files EXCEPT ![wpath[p]] = tmp[p]]
    /\ tmp' = [tmp EXCEPT ![p] = NoFile]
    /\ hist' = IF wpath[p] \in DOMAIN hist
               THEN [hist EXCEPT ![wpath[p]] = @ \cup {Parse(wdata[p]).t}]
               ELSE hist
    /\ WriteLocalsEnd(p)
    /\ Return(p, NoErr)
    /\ UNCHANGED <<locks, lpath, lshared, aid, tk, lt, op, fn, calls, cmdVars>>

\* atomicWrite: a step fails (create, write, close, chmod or rename); the
\* temp file, if any, is removed and the error is returned.
AwFail(p) ==
    /\ pc[p] \in {"aw_create", "aw_write", "aw_close", "aw_rename"}
    /\ tmp' = [tmp EXCEPT ![p] = NoFile]
    /\ WriteLocalsEnd(p)
    /\ Return(p, Wrap(pc[p], <<"i/o error">>))
    /\ UNCHANGED <<files, hist>>
    /\ UNCHANGED <<locks, lpath, lshared, aid, tk, lt, op, fn, calls, cmdVars>>

(***************************************************************************)
(* internal/store                                                          *)
(***************************************************************************)
\* Store.lockPath(id) and Store.storeLockPath(), under Dir/.locks.
lockPath(id) == id \o <<".lock">>
storeLockPath == <<"s", "t", "o", "r", "e", ".lock">>

\* The lock GetForUpdate takes: filelock.Acquire, the exclusive one.
GetForUpdateSharedLock == TRUE

GetForUpdateShared == FALSE

\* LockedTicket.Release: the lock is released once, and lt.lock set to nil.
HandleReleasedKeepsLock(h) == h

HandleReleased(h) == [h EXCEPT !.held = FALSE]

HandleRelease(p) ==
    IF lt[p].held
    THEN /\ locks' = Unlock(locks, p, lockPath(lt[p].id))
         /\ lt' = [lt EXCEPT ![p] = [HandleReleased(lt[p]) EXCEPT !.released = TRUE]]
    ELSE /\ lt' = [lt EXCEPT ![p].released = TRUE]
         /\ UNCHANGED locks

\* Store.Get(id), from the acquisition of the shared lock on.
CallGet(p, id, rets) ==
    /\ aid' = [aid EXCEPT ![p] = id]
    /\ pc' = [pc EXCEPT ![p] = "acquire"]
    /\ stk' = [stk EXCEPT ![p] = <<"Get_locked">> \o rets \o stk[p]]
    /\ lpath' = [lpath EXCEPT ![p] = lockPath(id)]
    /\ lshared' = [lshared EXCEPT ![p] = TRUE]

\* Store.Get: the lock failed, or ParseFile reads the record file.
GetLocked(p) ==
    /\ pc[p] = "Get_locked"
    /\ IF err[p] # NoErr
       THEN /\ Return(p, Wrap("acquire lock", err[p]))
            /\ tk' = [tk EXCEPT ![p] = NoTicket]
            /\ aid' = [aid EXCEPT ![p] = <<>>]
       ELSE LET r == ParseFile(files, aid[p])
            IN  /\ tk' = [tk EXCEPT ![p] = r.t]
                /\ err' = [err EXCEPT ![p] = r.err]
                /\ pc' = [pc EXCEPT ![p] = "Get_release"]
                /\ UNCHANGED <<stk, aid>>
    /\ UNCHANGED <<writeVars, locks, lpath, lshared, lt, op, fn, calls, cmdVars>>

\* Store.Get: the deferred lock.Release, and the return.
GetRelease(p) ==
    /\ pc[p] = "Get_release"
    /\ locks' = Unlock(locks, p, lockPath(aid[p]))
    /\ aid' = [aid EXCEPT ![p] = <<>>]
    /\ Return(p, err[p])
    /\ UNCHANGED <<writeVars, lpath, lshared, tk, lt, op, fn, calls, cmdVars>>

\* Store.Save(t), from the acquisition of the exclusive lock on (EnsureDir
\* finds the directory there).
CallSave(p, t, rets) ==
    /\ tk' = [tk EXCEPT ![p] = t]
    /\ pc' = [pc EXCEPT ![p] = "acquire"]
    /\ stk' = [stk EXCEPT ![p] = <<"Save_locked">> \o rets \o stk[p]]
    /\ lpath' = [lpath EXCEPT ![p] = lockPath(t.ID)]
    /\ lshared' = [lshared EXCEPT ![p] = FALSE]

\* Store.Save: the lock failed, or WriteFile starts.
SaveLocked(p) ==
    /\ pc[p] = "Save_locked"
    /\ IF err[p] # NoErr
       THEN /\ Return(p, Wrap("acquire lock", err[p]))
            /\ UNCHANGED <<wpath, wdata>>
       ELSE /\ CallWrite(p, tk[p].ID, tk[p], "Save_release")
            /\ UNCHANGED err
    /\ UNCHANGED <<files, tmp, hist>>
    /\ UNCHANGED <<locks, lpath, lshared, aid, tk, lt, op, fn, calls, cmdVars>>

\* Store.Save: the deferred lock.Release, and the return of WriteFile's error.
SaveRelease(p) ==
    /\ pc[p] = "Save_release"
    /\ locks' = Unlock(locks, p, lockPath(tk[p].ID))
    /\ Return(p, err[p])
    /\ UNCHANGED <<writeVars, lpath, lshared, aid, tk, lt, op, fn, calls, cmdVars>>

\* The ticket of the handle: the one GetForUpdate read under the lock.  In
\* ResolveForUpdate, which returns GetForUpdate(t.ID), it is not the copy t
\* that Resolve read.
ResolveForUpdateTicketStale(t, read) == IF t = NoTicket THEN read ELSE t

ResolveForUpdateTicket(t, read) == read

\* Store.GetForUpdate(id), from the acquisition of the lock on.
CallGetForUpdate(p, id, rets) ==
    /\ aid' = [aid EXCEPT ![p] = id]
    /\ pc' = [pc EXCEPT ![p] = "acquire"]
    /\ stk' = [stk EXCEPT ![p] = <<"GetForUpdate_locked">> \o rets \o stk[p]]
    /\ lpath' = [lpath EXCEPT ![p] = lockPath(id)]
    /\ lshared' = [lshared EXCEPT ![p] = GetForUpdateShared]

\* Store.GetForUpdate: the lock failed, or ParseFile reads the record file
\* under the lock; the handle keeps the lock.  base and released are ghost
\* fields: the ticket as read, and whether Release was called on the handle.
GetForUpdateLocked(p) ==
    /\ pc[p] = "GetForUpdate_locked"
    /\ IF err[p] # NoErr
       THEN /\ Return(p, Wrap("acquire lock", err[p]))
            /\ lt' = [lt EXCEPT ![p] = NoHandle]
            /\ aid' = [aid EXCEPT ![p] = <<>>]
       ELSE LET r == ParseFile(files, aid[p])
            IN  IF r.err # NoErr
                THEN /\ err' = [err EXCEPT ![p] = r.err]
                     /\ pc' = [pc EXCEPT ![p] = "GetForUpdate_unlock"]
                     /\ lt' = [lt EXCEPT ![p] = NoHandle]
                     /\ UNCHANGED <<stk, aid>>
                ELSE /\ lt' = [lt EXCEPT ![p] = [Ticket |-> ResolveForUpdateTicket(tk[p], r.t),
                                                 id |-> aid[p],
                                                 held |-> TRUE, base |-> r.t,
                                                 released |-> FALSE]]
                     /\ aid' = [aid EXCEPT ![p] = <<>>]
                     /\ Return(p, NoErr)
    /\ UNCHANGED <<writeVars, locks, lpath, lshared, tk, op, fn, calls, cmdVars>>

\* Store.GetForUpdate: ParseFile failed; the lock is released and the error
\* returned.
GetForUpdateUnlock(p) ==
    /\ pc[p] = "GetForUpdate_unlock"
    /\ locks' = Unlock(locks, p, lockPath(aid[p]))
    /\ aid' = [aid EXCEPT ![p] = <<>>]
    /\ Return(p, err[p])
    /\ UNCHANGED <<writeVars, lpath, lshared, tk, lt, op, fn, calls, cmdVars>>

\* The mutators given to Update: "inc" adds one to Priority; "setid" sets
\* the ID field; "fail" sets Status to closed in memory and then returns
\* an error.
ErrMutator == <<"mutator failed">>

\* The ID that the mutator "setid" gives the ticket.
SetIdTarget == <<"k", "t", "2">>

ApplyFn(f, t) ==
    IF f = "inc"
    THEN [t |-> [t EXCEPT !.Priority = @ + 1], err |-> NoErr]
    ELSE IF f = "setid"
    THEN [t |-> [t EXCEPT !.ID = SetIdTarget], err |-> NoErr]
    ELSE [t |-> [t EXCEPT !.Status = StatusClosed], err |-> ErrMutator]

\* Update: what follows fn's return: the deferred Release alone when fn
\* failed, WriteFile before it otherwise.
UpdateWritesAlways(e) == TRUE

UpdateWrites(e) == e = NoErr

\* Store.Update: GetForUpdate failed, or fn runs on the handle's ticket;
\* then WriteFile to the path of the ticket's ID starts, unless fn failed.
UpdateFn(p) ==
    /\ pc[p] = "Update_fn"
    /\ IF err[p] # NoErr
       THEN /\ Return(p, err[p])
            /\ UNCHANGED <<lt, wpath, wdata>>
       ELSE LET r == ApplyFn(fn[p], lt[p].Ticket)
            IN  /\ lt' = [lt EXCEPT ![p].Ticket = r.t]
                /\ IF UpdateWrites(r.err)
                   THEN /\ CallWrite(p, r.t.ID, r.t, "Update_release")
                        /\ UNCHANGED err
                   ELSE /\ pc' = [pc EXCEPT ![p] = "Update_release"]
                        /\ err' = [err EXCEPT ![p] = r.err]
                        /\ UNCHANGED <<stk, wpath, wdata>>
    /\ UNCHANGED <<files, tmp, hist>>
    /\ UNCHANGED <<locks, lpath, lshared, aid, tk, op, fn, calls, cmdVars>>

\* Store.Update: the deferred lt.Release, and the return.
UpdateRelease(p) ==
    /\ pc[p] = "Update_release"
    /\ HandleRelease(p)
    /\ Return(p, err[p])
    /\ UNCHANGED <<writeVars, lpath, lshared, aid, tk, op, fn, calls, cmdVars>>

(***************************************************************************)
(* The update specification: NumCallers concurrent Update(id, fn) calls on *)
(* one record that starts at Priority 0, fn adding one to Priority.        *)
(***************************************************************************)
NumCallers == 3

Callers == 1..NumCallers

RecId == <<"k", "t", "1">>

NewTicket(id, status, tests, passed) ==
    [ID |-> id, Status |-> status, Priority |-> 0, TestsPassed |-> passed,
     Parent |-> <<>>, Deps |-> <<>>, Links |-> <<>>, Created |-> 0,
     Title |-> "T", Tests |-> tests]

FileOf(t) == [exists |-> TRUE, data |-> Marshal(t)]

InitUpdate ==
    /\ InitProcs(Callers)
    /\ files = [i \in {RecId} |-> FileOf(NewTicket(i, StatusOpen, "", FALSE))]
    /\ locks = {}
    /\ hist = [i \in {RecId} |-> {NewTicket(i, StatusOpen, "", FALSE)}]
    /\ gate = <<>>

\* A caller starts its one call Update(RecId, inc).
UpdateCall(p) ==
    /\ pc[p] = "idle"
    /\ calls[p] = 0
    /\ calls' = [calls EXCEPT ![p] = 1]
    /\ op' = [op EXCEPT ![p] = "Update"]
    /\ fn' = [fn EXCEPT ![p] = "inc"]
    /\ CallGetForUpdate(p, RecId, <<"Update_fn", "idle">>)
    /\ UNCHANGED <<writeVars, locks, err, tk, lt, cmdVars>>

NextUpdate ==
    \E p \in Callers :
        \/ UpdateCall(p)
        \/ AcquireTry(p)
        \/ AcquireRetry(p)
        \/ AcquireTimeout(p)
        \/ GetForUpdateLocked(p)
        \/ UpdateFn(p)
        \/ AwCreate(p)
        \/ AwWrite(p)
        \/ AwClose(p)
        \/ AwRename(p)
        \/ UpdateRelease(p)

SpecUpdate == InitUpdate /\ [][NextUpdate]_vars

Returned(p) == pc[p] = "idle" /\ calls[p] > 0

StoredPriority == Parse(files[RecId].data).t.Priority

NumProcs == 2

Procs == 1..NumProcs

StoreIds == {RecId}

ErrReleased == <<"lock already released">>

InitStore ==
    /\ InitProcs(Procs)
    /\ \E stored \in BOOLEAN :
          /\ files = [i \in StoreIds |->
                        IF stored THEN FileOf(NewTicket(i, StatusOpen, "", FALSE))
                        ELSE NoFile]
          /\ hist = [i \in StoreIds |->
                       IF stored THEN {NewTicket(i, StatusOpen, "", FALSE)} ELSE {}]
    /\ locks = {}
    /\ gate = <<>>

\* Each caller makes one store call (and then any calls of the methods of
\* the handle it got).
CanCall(p) ==
    /\ pc[p] = "idle"
    /\ calls[p] = 0

\* The start of a store call: the results of the call before are dropped.
Begin(p, name) ==
    /\ calls' = [calls EXCEPT ![p] = @ + 1]
    /\ op' = [op EXCEPT ![p] = name]
    /\ err' = [err EXCEPT ![p] = NoErr]

\* Store.Get(id).
GetCall(p) ==
    /\ CanCall(p)
    /\ Begin(p, "Get")
    /\ \E id \in StoreIds : CallGet(p, id, <<"idle">>)
    /\ tk' = [tk EXCEPT ![p] = NoTicket]
    /\ lt' = [lt EXCEPT ![p] = NoHandle]
    /\ fn' = [fn EXCEPT ![p] = ""]
    /\ UNCHANGED <<writeVars, locks, cmdVars>>

\* Store.Save(t), t a record of the caller's.
SaveCall(p) ==
    /\ CanCall(p)
    /\ Begin(p, "Save")
    /\ \E id \in StoreIds :
          CallSave(p, NewTicket(id, StatusInProgress, "", FALSE), <<"idle">>)
    /\ lt' = [lt EXCEPT ![p] = NoHandle]
    /\ fn' = [fn EXCEPT ![p] = ""]
    /\ UNCHANGED <<writeVars, locks, aid, cmdVars>>

\* Store.Update(id, fn).
StoreUpdateCall(p) ==
    /\ CanCall(p)
    /\ Begin(p, "Update")
    /\ \E id \in StoreIds, f \in {"inc", "fail"} :
          /\ fn' = [fn EXCEPT ![p] = f]
          /\ CallGetForUpdate(p, id, <<"Update_fn", "idle">>)
    /\ tk' = [tk EXCEPT ![p] = NoTicket]
    /\ lt' = [lt EXCEPT ![p] = NoHandle]
    /\ UNCHANGED <<writeVars, locks, cmdVars>>

\* Store.GetForUpdate(id).
GetForUpdateCall(p) ==
    /\ CanCall(p)
    /\ Begin(p, "GetForUpdate")
    /\ \E id \in StoreIds : CallGetForUpdate(p, id, <<"idle">>)
    /\ tk' = [tk EXCEPT ![p] = NoTicket]
    /\ lt' = [lt EXCEPT ![p] = NoHandle]
    /\ fn' = [fn EXCEPT ![p] = ""]
    /\ UNCHANGED <<writeVars, locks, cmdVars>>

HasHandle(p) == pc[p] = "idle" /\ op[p] = "GetForUpdate" /\ lt[p] # NoHandle

\* The caller changes the handle's ticket in memory.
MutateCall(p) ==
    /\ HasHandle(p)
    /\ lt[p].Ticket.Status # StatusClosed
    /\ lt' = [lt EXCEPT ![p].Ticket.Status = StatusClosed]
    /\ UNCHANGED <<writeVars, locks, pc, stk, lpath, lshared, err, aid, tk, op,
                   fn, calls, cmdVars>>

\* LockedTicket.Release.
ReleaseCall(p) ==
    /\ HasHandle(p)
    /\ HandleRelease(p)
    /\ UNCHANGED <<writeVars, pc, stk, lpath, lshared, err, aid, tk, op, fn,
                   calls, cmdVars>>

\* A call of lt.SaveAndRelease() by an idle caller.
SaveAndReleaseCall(p) ==
    /\ HasHandle(p)
    /\ pc' = [pc EXCEPT ![p] = "SaveAndRelease"]
    /\ stk' = [stk EXCEPT ![p] = <<"idle">>]
    /\ UNCHANGED <<writeVars, locks, lpath, lshared, err, aid, tk, lt, op, fn,
                   calls, cmdVars>>

\* LockedTicket.SaveAndRelease: the error when the lock is nil, else
\* WriteFile to the path of the ticket's ID starts.
SaveAndReleaseEntry(p) ==
    /\ pc[p] = "SaveAndRelease"
    /\ IF ~lt[p].held
       THEN /\ Return(p, ErrReleased)
            /\ UNCHANGED <<wpath, wdata>>
       ELSE /\ CallWrite(p, lt[p].Ticket.ID, lt[p].Ticket, "SaveAndRelease_release")
            /\ UNCHANGED err
    /\ UNCHANGED <<files, tmp, hist>>
    /\ UNCHANGED <<locks, lpath, lshared, aid, tk, lt, op, fn, calls, cmdVars>>

\* LockedTicket.SaveAndRelease: the deferred lt.Release, and the return of
\* WriteFile's error.
SaveAndReleaseRelease(p) ==
    /\ pc[p] = "SaveAndRelease_release"
    /\ HandleRelease(p)
    /\ Return(p, err[p])
    /\ UNCHANGED <<writeVars, lpath, lshared, aid, tk, op, fn, calls, cmdVars>>

NextStore ==
    \E p \in Procs :
        \/ GetCall(p)
        \/ SaveCall(p)
        \/ StoreUpdateCall(p)
        \/ GetForUpdateCall(p)
        \/ MutateCall(p)
        \/ ReleaseCall(p)
        \/ SaveAndReleaseCall(p)
        \/ SaveAndReleaseEntry(p)
        \/ SaveAndReleaseRelease(p)
        \/ AcquireTry(p)
        \/ AcquireRetry(p)
        \/ AcquireTimeout(p)
        \/ GetLocked(p)
        \/ GetRelease(p)
        \/ SaveLocked(p)
        \/ SaveRelease(p)
        \/ GetForUpdateLocked(p)
        \/ GetForUpdateUnlock(p)
        \/ UpdateFn(p)
        \/ UpdateRelease(p)
        \/ AwCreate(p)
        \/ AwWrite(p)
        \/ AwClose(p)
        \/ AwRename(p)
        \/ AwFail(p)

SpecStore == InitStore /\ [][NextStore]_vars

StoredTicket(id) == ParseFile(files, id).t

\* C2: a record Get returns is a complete record that a write to that id
\* committed (or the one stored at the start), never a part of one.
C2_GetReadsWholeRecord ==
    \A p \in Procs :
        (pc[p] = "Get_release" /\ err[p] = NoErr) => tk[p] \in hist[aid[p]]

\* C2's case: a Get holds the whole record stored before a write to the
\* same id that another caller has started and that waits for Get's lock.
C2_Witness ==
    \E p \in Procs : \E q \in Procs :
        /\ pc[p] = "Get_release" /\ err[p] = NoErr
        /\ tk[p] = NewTicket(RecId, StatusOpen, "", FALSE)
        /\ q # p /\ op[q] \in {"Update", "Save"}
        /\ pc[q] = "acquire_wait" /\ lpath[q] = lockPath(aid[p])

\* The callers whose LockedTicket for id still has its lock.
Unreleased(id) == {p \in Procs : lt[p].held /\ lt[p].id = id}

Committing(p) == pc[p] \in {"SaveAndRelease_release", "Update_release"}

\* C4: at most one unreleased LockedTicket per id, and until its own write
\* the stored record is the one the handle started from: no other write
\* came between.
C4_Serialized ==
    \A id \in StoreIds :
        /\ Cardinality(Unreleased(id)) <= 1
        /\ \A p \in Unreleased(id) :
               /\ Holds(p, lockPath(id))
               /\ ~Committing(p) => StoredTicket(id) = lt[p].base

\* C4's case: a caller holds a handle whose ticket is the one another
\* caller's Update wrote before it.
C4_Witness ==
    \E p \in Procs : \E q \in Procs :
        /\ lt[p].held /\ lt[p].base.Priority = 1 /\ op[p] = "GetForUpdate"
        /\ q # p /\ op[q] = "Update" /\ pc[q] = "idle" /\ err[q] = NoErr

\* C5: Release on a handle already released (by Release or by
\* SaveAndRelease) changes nothing and reports nothing; SaveAndRelease on a
\* released handle returns the "already released" error and writes nothing.
C5_ReleaseIdempotent ==
    [][\A p \in Procs :
          /\ (ReleaseCall(p) /\ lt[p].released) =>
                 (lt' = lt /\ err' = err /\ UNCHANGED <<files, tmp, locks>>)
          /\ (SaveAndReleaseEntry(p) /\ lt[p].released) =>
                 /\ err'[p] = ErrReleased
                 /\ pc'[p] = "idle"
                 /\ UNCHANGED <<files, tmp, locks, lt>>]_vars

\* C5's case: SaveAndRelease has returned the error on a handle that Release
\* had released, the ticket changed in memory and the stored one not.
C5_Witness ==
    \E p \in Procs :
        /\ pc[p] = "idle" /\ op[p] = "GetForUpdate"
        /\ lt[p].released /\ ~lt[p].held
        /\ err[p] = ErrReleased
        /\ lt[p].Ticket.Status = StatusClosed
        /\ StoredTicket(lt[p].id) = lt[p].base

\* C6: Release on a handle that holds its lock leaves the files alone and
\* frees the lock: the stored record is the one GetForUpdate read, whatever
\* was changed in memory.
C6_ReleaseDiscards ==
    [][\A p \in Procs :
          (ReleaseCall(p) /\ lt[p].held) =>
              /\ files' = files
              /\ tmp' = tmp
              /\ ~(\E l \in locks' : l.owner = p)
              /\ ParseFile(files', lt[p].id).t = lt[p].base]_vars

\* C6's case: after GetForUpdate, a change in memory and Release, another
\* caller's Get holds the record as it was before GetForUpdate.
C6_Witness ==
    \E p \in Procs : \E q \in Procs :
        /\ lt[p].released /\ ~lt[p].held /\ op[p] = "GetForUpdate"
        /\ err[p] = NoErr
        /\ lt[p].Ticket.Status = StatusClosed
        /\ q # p /\ pc[q] = "Get_release" /\ err[q] = NoErr
        /\ tk[q] = lt[p].base /\ tk[q] # lt[p].Ticket

\* C7: an Update whose mutator failed writes nothing and returns the
\* mutator's error: while it still holds the lock the stored record is the
\* one it read, though the ticket was changed in memory, and once it has
\* returned it holds no lock.
C7_UpdateErrorDiscards ==
    \A p \in Procs :
        (op[p] = "Update" /\ fn[p] = "fail" /\ lt[p] # NoHandle
                          /\ lt[p].Ticket # lt[p].base) =>
            /\ pc[p] \in {"Update_release", "idle"}
            /\ err[p] = ErrMutator
            /\ tmp[p] = NoFile
            /\ pc[p] = "Update_release" => StoredTicket(lt[p].id) = lt[p].base
            /\ pc[p] = "idle" => (~lt[p].held /\ ~Holds(p, lockPath(lt[p].id)))

\* C7's case: the failed Update has returned, the ticket it changed in
\* memory is closed and the stored one is still open.
C7_Witness ==
    \E p \in Procs :
        /\ op[p] = "Update" /\ fn[p] = "fail" /\ pc[p] = "idle"
        /\ err[p] = ErrMutator
        /\ lt[p].Ticket.Status = StatusClosed
        /\ StoredTicket(lt[p].id).Status = StatusOpen
        /\ locks = {}

\* The steps of caller p inside a store call: all but the calls themselves.
StoreStep(p) ==
    \/ SaveAndReleaseEntry(p)
    \/ SaveAndReleaseRelease(p)
    \/ AcquireTry(p)
    \/ AcquireRetry(p)
    \/ AcquireTimeout(p)
    \/ GetLocked(p)
    \/ GetRelease(p)
    \/ SaveLocked(p)
    \/ SaveRelease(p)
    \/ GetForUpdateLocked(p)
    \/ GetForUpdateUnlock(p)
    \/ UpdateFn(p)
    \/ UpdateRelease(p)
    \/ AwCreate(p)
    \/ AwWrite(p)
    \/ AwClose(p)
    \/ AwRename(p)
    \/ AwFail(p)

\* The store specification with callers that keep running: a caller inside a
\* call takes its next step, and the deadline of a waiting acquire passes.
\* Nothing makes a caller release a handle it holds or start a call.
SpecStoreFair == SpecStore /\ \A p \in Procs : WF_vars(StoreStep(p))

\* C13: every store call returns, whatever the other callers do and even if
\* a holder never releases; and acquire returns either nil with the lock
\* taken on its path or the deadline error with no lock taken.
C13_CallsReturn ==
    /\ \A p \in Procs : (pc[p] # "idle") ~> (pc[p] = "idle")
    /\ [][\A p \in Procs :
            (pc[p] \in {"acquire", "acquire_wait"} /\ pc'[p] # pc[p]
                                                   /\ pc'[p] # "acquire_wait") =>
                \/ /\ err'[p] = NoErr
                   /\ locks' = locks \cup {LockEntry(p, lpath[p], lshared[p])}
                   /\ Compatible(locks, lpath[p], AcquireMode(lshared[p]))
                \/ /\ err'[p] = ErrDeadline
                   /\ locks' = locks]_vars

\* C13's case: a call has returned the deadline error while another caller
\* still holds the handle with the lock it waited for.
C13_Witness ==
    \E p \in Procs : \E q \in Procs :
        /\ pc[p] = "idle" /\ err[p] = Wrap("acquire lock", ErrDeadline)
        /\ q # p /\ pc[q] = "idle" /\ lt[q].held /\ Holds(q, lockPath(lt[q].id))

(***************************************************************************)
(* Store.Resolve and Store.ResolveForUpdate                                *)
(***************************************************************************)
\* path/filepath.Match on one path element: * matches any sequence of
\* characters, ? any single character, any other character itself.  (The
\* partials of the model hold no [ and no backslash.)
RECURSIVE Match(_, _)
Match(pattern, name) ==
    IF pattern = <<>>
    THEN name = <<>>
    ELSE IF Head(pattern) = "*"
         THEN \/ Match(Tail(pattern), name)
              \/ (name # <<>> /\ Match(pattern, Tail(name)))
         ELSE /\ name # <<>>
              /\ (Head(pattern) = "?" \/ Head(pattern) = Head(name))
              /\ Match(Tail(pattern), Tail(name))

\* filepath.Glob(Dir/*partial*.md), as the ids of the files it finds.
Glob(F, partial) ==
    {id \in DOMAIN F :
        /\ F[id].exists
        /\ Match(<<"*">> \o partial \o <<"*", ".md">>, id \o <<".md">>)}

ErrNotFound == <<"ticket not found">>
ErrAmbiguous == <<"ambiguous ID matches multiple tickets">>

\* Store.Resolve(partial): first Get(partial), the exact match.
CallResolve(p, partial, rets) ==
    /\ part' = [part EXCEPT ![p] = partial]
    /\ CallGet(p, partial, <<"Resolve_exact">> \o rets)

\* Store.Resolve: Get(partial) found the record, or the shared store lock is
\* asked for.
ResolveExact(p) ==
    /\ pc[p] = "Resolve_exact"
    /\ IF err[p] = NoErr
       THEN /\ Return(p, NoErr)
            /\ UNCHANGED <<lpath, lshared>>
       ELSE /\ CallAcquire(p, storeLockPath, TRUE, "Resolve_glob")
            /\ UNCHANGED err
    /\ UNCHANGED <<writeVars, locks, aid, tk, lt, op, fn, calls, cmdVars>>

\* Store.Resolve: the store lock failed, or filepath.Glob runs under it.
ResolveGlob(p) ==
    /\ pc[p] = "Resolve_glob"
    /\ IF err[p] # NoErr
       THEN /\ Return(p, Wrap("acquire store lock", err[p]))
            /\ UNCHANGED matches
       ELSE /\ matches' = [matches EXCEPT ![p] = Glob(files, part[p])]
            /\ pc' = [pc EXCEPT ![p] = "Resolve_unlock"]
            /\ UNCHANGED <<stk, err>>
    /\ UNCHANGED <<writeVars, locks, lpath, lshared, aid, tk, lt, op, fn, batchVars, calls,
                   part, todo, cmd, out, gate>>

\* Store.Resolve: the store lock is released, then the switch on the number
\* of matches: not found, Get of the single match, or ambiguous (the error
\* names the ids of matches).
ResolveUnlock(p) ==
    /\ pc[p] = "Resolve_unlock"
    /\ locks' = Unlock(locks, p, storeLockPath)
    /\ IF Cardinality(matches[p]) = 0
       THEN /\ Return(p, ErrNotFound)
            /\ UNCHANGED <<aid, lpath, lshared>>
       ELSE IF Cardinality(matches[p]) = 1
            THEN /\ CallGet(p, CHOOSE id \in matches[p] : TRUE, <<>>)
                 /\ UNCHANGED err
            ELSE /\ Return(p, ErrAmbiguous)
                 /\ UNCHANGED <<aid, lpath, lshared>>
    /\ UNCHANGED <<writeVars, tk, lt, op, fn, calls, cmdVars>>

\* Store.ResolveForUpdate(partial): Resolve first.
CallResolveForUpdate(p, partial, rets) ==
    CallResolve(p, partial, <<"ResolveForUpdate_resolved">> \o rets)

\* Store.ResolveForUpdate: Resolve's error, or GetForUpdate of the ID of the
\* ticket Resolve returned; t stays the copy Resolve read.
ResolveForUpdateResolved(p) ==
    /\ pc[p] = "ResolveForUpdate_resolved"
    /\ IF err[p] # NoErr
       THEN /\ Return(p, err[p])
            /\ tk' = [tk EXCEPT ![p] = NoTicket]
            /\ UNCHANGED <<aid, lpath, lshared>>
       ELSE /\ CallGetForUpdate(p, tk[p].ID, <<>>)
            /\ UNCHANGED <<err, tk>>
    /\ part' = [part EXCEPT ![p] = <<>>]
    /\ matches' = [matches EXCEPT ![p] = {}]
    /\ UNCHANGED <<writeVars, locks, lt, op, fn, batchVars, calls, todo, cmd, out, gate>>

(***************************************************************************)
(* The resolve specification: one caller of Resolve on a store at rest,    *)
(* with any of the records of ResolveIds and any partial of at most        *)
(* MaxPartialLen characters of PartialChars.                               *)
(***************************************************************************)
MaxPartialLen == 2

PartialChars == {"a", "b", "c", "?", "*"}

ResolveIds == {<<"a", "b">>, <<"a", "c">>, <<"b", "c">>}

Partials == UNION {[1..n -> PartialChars] : n \in 0..MaxPartialLen}

Resolvers == {1}

InitResolve ==
    /\ InitProcs(Resolvers)
    /\ \E S \in SUBSET ResolveIds :
          files = [i \in ResolveIds |->
                     IF i \in S THEN FileOf(NewTicket(i, StatusOpen, "", FALSE))
                     ELSE NoFile]
    /\ locks = {}
    /\ hist = <<>>
    /\ gate = <<>>

\* Store.Resolve(partial).
ResolveCall(p) ==
    /\ CanCall(p)
    /\ Begin(p, "Resolve")
    /\ \E partial \in Partials : CallResolve(p, partial, <<"idle">>)
    /\ UNCHANGED <<writeVars, locks, tk, lt, fn, batchVars, matches, todo, cmd, out, gate>>

NextResolve ==
    \E p \in Resolvers :
        \/ ResolveCall(p)
        \/ AcquireTry(p)
        \/ GetLocked(p)
        \/ GetRelease(p)
        \/ ResolveExact(p)
        \/ ResolveGlob(p)
        \/ ResolveUnlock(p)

SpecResolve == InitResolve /\ [][NextResolve]_vars

\* s holds sub as a substring.
Contains(s, sub) ==
    \E i \in 0..(Len(s) - Len(sub)) : SubSeq(s, i + 1, i + Len(sub)) = sub

Stored(F) == {id \in DOMAIN F : F[id].exists}

\* C8 as claimed: when Resolve(partial) has returned, it gave the record
\* whose id is partial if there is one; else, M being the stored ids that
\* hold partial as a substring, not found when M is empty, the record of M
\* when it has one id, and ambiguous naming the ids of M otherwise.
C8_ResolveBySubstring ==
    \A p \in Resolvers :
        (pc[p] = "idle" /\ op[p] = "Resolve") =>
            LET partial == part[p]
                M == {id \in Stored(files) : Contains(id, partial)}
            IN  IF partial \in Stored(files)
                THEN err[p] = NoErr /\ tk[p] = StoredTicket(partial)
                ELSE IF Cardinality(M) = 0
                     THEN err[p] = ErrNotFound
                     ELSE IF Cardinality(M) = 1
                          THEN /\ err[p] = NoErr
                               /\ \E id \in M : tk[p] = StoredTicket(id)
                          ELSE /\ err[p] = ErrAmbiguous
                               /\ matches[p] = M

(***************************************************************************)
(* internal/cmd/status.go: kt start, close, reopen, status and pass        *)
(***************************************************************************)
\* statusResult with one more entry in Errors / in Updated.
AddError(r, id, e) == [r EXCEPT !.Errors = Append(@, [ID |-> id, Error |-> e])]
AddUpdated(r, id) == [r EXCEPT !.Updated = Append(@, id)]

\* The close / pass / close scenario on a record, as a ghost counter: 1 once
\* a close was refused, 2 once a pass was saved after that, 3 once a close
\* was saved after that.
GateStep(g, id, from) ==
    IF id \in DOMAIN g /\ g[id] = from THEN [g EXCEPT ![id] = from + 1] ELSE g

\* `continue` after an id's error is recorded: the loop goes on with the
\* ids that are left.
ContinueAbort(rest) == <<>>

Continue(rest) == rest

\* A command ends: the kt process has printed its result and exits, and
\* nothing of its memory is left.
Exit(p) ==
    /\ pc' = [pc EXCEPT ![p] = "idle"]
    /\ err' = [err EXCEPT ![p] = NoErr]
    /\ tk' = [tk EXCEPT ![p] = NoTicket]
    /\ lt' = [lt EXCEPT ![p] = NoHandle]
    /\ op' = [op EXCEPT ![p] = ""]
    /\ part' = [part EXCEPT ![p] = <<>>]
    /\ matches' = [matches EXCEPT ![p] = {}]
    /\ cmd' = [cmd EXCEPT ![p] = NoCmd]
    /\ out' = [out EXCEPT ![p] = NoResult]

\* A command starts: a new process of kt, with no result yet.
BeginCmd(p, c, args) ==
    /\ Begin(p, c.name)
    /\ cmd' = [cmd EXCEPT ![p] = c]
    /\ todo' = [todo EXCEPT ![p] = args]
    /\ out' = [out EXCEPT ![p] = NoResult]
    /\ tk' = [tk EXCEPT ![p] = NoTicket]
    /\ lt' = [lt EXCEPT ![p] = NoHandle]
    /\ matches' = [matches EXCEPT ![p] = {}]
    /\ part' = [part EXCEPT ![p] = <<>>]

\* setStatusMultiple(ids, status, validateClose): the head of the loop over
\* ids: ResolveForUpdate of the next id, or the end of the command.
SetStatusLoop(p) ==
    /\ pc[p] = "setStatusMultiple_loop"
    /\ IF todo[p] = <<>>
       THEN /\ Exit(p)
            /\ UNCHANGED <<stk, aid, lpath, lshared>>
       ELSE /\ CallResolveForUpdate(p, Head(todo[p]), <<"setStatusMultiple_resolved">>)
            /\ UNCHANGED <<err, tk, lt, op, matches, cmd, out>>
    /\ UNCHANGED <<writeVars, locks, fn, batchVars, calls, todo, gate>>

\* setStatusMultiple: ResolveForUpdate failed; or CanClose refuses and the
\* handle is released; or the status is set and SaveAndRelease starts.
SetStatusResolved(p) ==
    /\ pc[p] = "setStatusMultiple_resolved"
    /\ IF err[p] # NoErr
       THEN /\ out' = [out EXCEPT ![p] = AddError(@, Head(todo[p]), err[p])]
            /\ todo' = [todo EXCEPT ![p] = Continue(Tail(@))]
            /\ pc' = [pc EXCEPT ![p] = "setStatusMultiple_loop"]
            /\ UNCHANGED <<locks, lt, stk, gate>>
       ELSE IF /\ cmd[p].validateClose
               /\ cmd[p].status = StatusClosed
               /\ CanClose(lt[p].Ticket) # NoErr
            THEN /\ HandleRelease(p)
                 /\ out' = [out EXCEPT ![p] =
                              AddError(@, lt[p].Ticket.ID, CanClose(lt[p].Ticket))]
                 /\ todo' = [todo EXCEPT ![p] = Continue(Tail(@))]
                 /\ pc' = [pc EXCEPT ![p] = "setStatusMultiple_loop"]
                 /\ gate' = GateStep(gate, lt[p].Ticket.ID, 0)
                 /\ UNCHANGED stk
            ELSE /\ lt' = [lt EXCEPT ![p].Ticket.Status = cmd[p].status]
                 /\ pc' = [pc EXCEPT ![p] = "SaveAndRelease"]
                 /\ stk' = [stk EXCEPT ![p] = <<"setStatusMultiple_saved">> \o @]
                 /\ UNCHANGED <<locks, out, todo, gate>>
    /\ UNCHANGED <<writeVars, lpath, lshared, err, aid, tk, op, fn, batchVars, calls, part,
                   matches, cmd>>

\* setStatusMultiple: SaveAndRelease has returned; the id goes to Errors or
\* to Updated, and the loop goes on.
SetStatusSaved(p) ==
    /\ pc[p] = "setStatusMultiple_saved"
    /\ IF err[p] # NoErr
       THEN /\ out' = [out EXCEPT ![p] = AddError(@, lt[p].Ticket.ID, err[p])]
            /\ UNCHANGED gate
       ELSE /\ out' = [out EXCEPT ![p] = AddUpdated(@, lt[p].Ticket.ID)]
            /\ gate' = IF cmd[p].validateClose /\ cmd[p].status = StatusClosed
                       THEN GateStep(gate, lt[p].Ticket.ID, 2)
                       ELSE gate
    /\ todo' = [todo EXCEPT ![p] = Tail(@)]
    /\ pc' = [pc EXCEPT ![p] = "setStatusMultiple_loop"]
    /\ UNCHANGED <<writeVars, locks, stk, lpath, lshared, err, aid, tk, lt, op,
                   fn, batchVars, calls, part, matches, cmd>>

\* runPass: the head of the loop over the ids.
RunPassLoop(p) ==
    /\ pc[p] = "runPass_loop"
    /\ IF todo[p] = <<>>
       THEN /\ Exit(p)
            /\ UNCHANGED <<stk, aid, lpath, lshared>>
       ELSE /\ CallResolveForUpdate(p, Head(todo[p]), <<"runPass_resolved">>)
            /\ UNCHANGED <<err, tk, lt, op, matches, cmd, out>>
    /\ UNCHANGED <<writeVars, locks, fn, batchVars, calls, todo, gate>>

\* runPass: ResolveForUpdate failed, or TestsPassed is set and SaveAndRelease
\* starts.
RunPassResolved(p) ==
    /\ pc[p] = "runPass_resolved"
    /\ IF err[p] # NoErr
       THEN /\ out' = [out EXCEPT ![p] = AddError(@, Head(todo[p]), err[p])]
            /\ todo' = [todo EXCEPT ![p] = Continue(Tail(@))]
            /\ pc' = [pc EXCEPT ![p] = "runPass_loop"]
            /\ UNCHANGED <<lt, stk>>
       ELSE /\ lt' = [lt EXCEPT ![p].Ticket.TestsPassed = TRUE]
            /\ pc' = [pc EXCEPT ![p] = "SaveAndRelease"]
            /\ stk' = [stk EXCEPT ![p] = <<"runPass_saved">> \o @]
            /\ UNCHANGED <<out, todo>>
    /\ UNCHANGED <<writeVars, locks, lpath, lshared, err, aid, tk, op, fn, batchVars, calls,
                   part, matches, cmd, gate>>

\* runPass: SaveAndRelease has returned.
RunPassSaved(p) ==
    /\ pc[p] = "runPass_saved"
    /\ IF err[p] # NoErr
       THEN /\ out' = [out EXCEPT ![p] = AddError(@, lt[p].Ticket.ID, err[p])]
            /\ UNCHANGED gate
       ELSE /\ out' = [out EXCEPT ![p] = AddUpdated(@, lt[p].Ticket.ID)]
            /\ gate' = GateStep(gate, lt[p].Ticket.ID, 1)
    /\ todo' = [todo EXCEPT ![p] = Tail(@)]
    /\ pc' = [pc EXCEPT ![p] = "runPass_loop"]
    /\ UNCHANGED <<writeVars, locks, stk, lpath, lshared, err, aid, tk, lt, op,
                   fn, batchVars, calls, part, matches, cmd>>

\* runStatus: ResolveForUpdate failed and the command ends with its error,
\* or the status is set to args[1] and SaveAndRelease starts.
RunStatusResolved(p) ==
    /\ pc[p] = "runStatus_resolved"
    /\ IF err[p] # NoErr
       THEN /\ Exit(p)
            /\ UNCHANGED stk
       ELSE /\ lt' = [lt EXCEPT ![p].Ticket.Status = cmd[p].status]
            /\ pc' = [pc EXCEPT ![p] = "SaveAndRelease"]
            /\ stk' = [stk EXCEPT ![p] = <<"runStatus_saved">> \o @]
            /\ UNCHANGED <<err, tk, op, part, matches, cmd, out>>
    /\ UNCHANGED <<writeVars, locks, lpath, lshared, aid, fn, batchVars, calls, todo, gate>>

\* runStatus: SaveAndRelease has returned; the command ends with its error
\* or prints the ticket.
RunStatusSaved(p) ==
    /\ pc[p] = "runStatus_saved"
    /\ Exit(p)
    /\ UNCHANGED <<writeVars, locks, stk, lpath, lshared, aid, fn, batchVars, calls, todo,
                   gate>>

(***************************************************************************)
(* The command specification: NumClients callers that each run up to       *)
(* MaxCmds status commands on one record, stored open with a tests section *)
(* and tests_passed false, and named by a part of its id.                  *)
(***************************************************************************)
NumClients == 2

MaxCmds == 2

Clients == 1..NumClients

TestsSection == "- T1"

CmdPartial == <<"t", "1">>

InitCmd ==
    /\ InitProcs(Clients)
    /\ files = [i \in StoreIds |-> FileOf(NewTicket(i, StatusOpen, TestsSection, FALSE))]
    /\ hist = <<>>
    /\ locks = {}
    /\ gate = [i \in StoreIds |-> 0]

CanRun(p) ==
    /\ pc[p] = "idle"
    /\ calls[p] < MaxCmds

\* kt close <id>: setStatusMultiple(args, StatusClosed, true).
runClose(p) ==
    /\ CanRun(p)
    /\ BeginCmd(p, [name |-> "close", status |-> StatusClosed,
                    validateClose |-> TRUE], <<CmdPartial>>)
    /\ pc' = [pc EXCEPT ![p] = "setStatusMultiple_loop"]
    /\ UNCHANGED <<writeVars, locks, stk, lpath, lshared, aid, fn, batchVars, gate>>

\* kt reopen <id>: setStatusMultiple(args, StatusOpen, false).
runReopen(p) ==
    /\ CanRun(p)
    /\ BeginCmd(p, [name |-> "reopen", status |-> StatusOpen,
                    validateClose |-> FALSE], <<CmdPartial>>)
    /\ pc' = [pc EXCEPT ![p] = "setStatusMultiple_loop"]
    /\ UNCHANGED <<writeVars, locks, stk, lpath, lshared, aid, fn, batchVars, gate>>

\* kt pass <id>.
runPass(p) ==
    /\ CanRun(p)
    /\ BeginCmd(p, [name |-> "pass", status |-> "", validateClose |-> FALSE],
                <<CmdPartial>>)
    /\ pc' = [pc EXCEPT ![p] = "runPass_loop"]
    /\ UNCHANGED <<writeVars, locks, stk, lpath, lshared, aid, fn, batchVars, gate>>

\* kt status <id> <status>: runStatus, from ResolveForUpdate(args[0]) on;
\* newStatus is ticket.Status(args[1]).
runStatusWith(p, status) ==
    /\ CanRun(p)
    /\ Begin(p, "status")
    /\ cmd' = [cmd EXCEPT ![p] = [name |-> "status", status |-> status,
                                  validateClose |-> FALSE]]
    /\ out' = [out EXCEPT ![p] = NoResult]
    /\ tk' = [tk EXCEPT ![p] = NoTicket]
    /\ lt' = [lt EXCEPT ![p] = NoHandle]
    /\ matches' = [matches EXCEPT ![p] = {}]
    /\ CallResolveForUpdate(p, CmdPartial, <<"runStatus_resolved">>)
    /\ UNCHANGED <<writeVars, locks, fn, batchVars, todo, gate>>

\* kt status <id> closed.
runStatus(p) == runStatusWith(p, StatusClosed)

NextCmd ==
    \E p \in Clients :
        \/ runClose(p)
        \/ runReopen(p)
        \/ runPass(p)
        \/ runStatus(p)
        \/ SetStatusLoop(p)
        \/ SetStatusResolved(p)
        \/ SetStatusSaved(p)
        \/ RunPassLoop(p)
        \/ RunPassResolved(p)
        \/ RunPassSaved(p)
        \/ RunStatusResolved(p)
        \/ RunStatusSaved(p)
        \/ ResolveForUpdateResolved(p)
        \/ ResolveExact(p)
        \/ ResolveGlob(p)
        \/ ResolveUnlock(p)
        \/ GetLocked(p)
        \/ GetRelease(p)
        \/ GetForUpdateLocked(p)
        \/ SaveAndReleaseEntry(p)
        \/ SaveAndReleaseRelease(p)
        \/ AcquireTry(p)
        \/ AcquireRetry(p)
        \/ AcquireTimeout(p)
        \/ AwCreate(p)
        \/ AwWrite(p)
        \/ AwClose(p)
        \/ AwRename(p)
        \/ AwFail(p)

SpecCmd == InitCmd /\ [][NextCmd]_vars

\* C9: kt close on a record read under its lock with a tests section and
\* tests_passed false is refused: nothing is written, the stored status
\* stays, the lock is released and the id is reported with an error.  On a
\* record whose tests passed (kt pass), close is not refused: it goes on to
\* save the ticket as closed, and once that write is committed the stored
\* status is closed.
C9_CloseGated ==
    /\ [](\A p \in Clients :
            (pc[p] = "SaveAndRelease_release" /\ err[p] = NoErr
                                              /\ cmd[p].name = "close") =>
                /\ StoredTicket(lt[p].id).Status = StatusClosed
                /\ (lt[p].base.Tests = "" \/ lt[p].base.TestsPassed))
    /\ [][\A p \in Clients :
            (SetStatusResolved(p) /\ err[p] = NoErr /\ cmd[p].name = "close") =>
                IF lt[p].Ticket.Tests # "" /\ ~lt[p].Ticket.TestsPassed
                THEN /\ files' = files
                     /\ tmp' = tmp
                     /\ StoredTicket(lt[p].id).Status = lt[p].base.Status
                     /\ ~(\E l \in locks' : l.owner = p)
                     /\ out'[p].Updated = out[p].Updated
                     /\ out'[p].Errors =
                            Append(out[p].Errors,
                                   [ID |-> lt[p].Ticket.ID,
                                    Error |-> <<"cannot close: tests not passed">>])
                ELSE /\ pc'[p] = "SaveAndRelease"
                     /\ lt'[p].held
                     /\ lt'[p].Ticket.Status = StatusClosed]_vars

\* C9's case: a close of the record was refused, then a pass was saved, then
\* a close was saved, and the stored record is closed with its tests passed.
C9_Witness ==
    \E id \in StoreIds :
        /\ gate[id] = 3
        /\ StoredTicket(id).Status = StatusClosed
        /\ StoredTicket(id).Tests # ""
        /\ StoredTicket(id).TestsPassed

\* C10 as claimed: no stored record is closed with a tests section and
\* tests_passed false.
C10_NoClosedWithoutPass ==
    \A id \in Stored(files) :
        LET t == StoredTicket(id)
        IN  ~(t.Status = StatusClosed /\ t.Tests # "" /\ ~t.TestsPassed)

(***************************************************************************)
(* internal/cmd: kt link add and kt link rm                                *)
(***************************************************************************)
\* The characters of the ids of the model, in byte order.
Alphabet == <<"-", "1", "2", "a", "b", "c", "k", "t">>

CharRank(c) == CHOOSE i \in 1..Len(Alphabet) : Alphabet[i] = c

\* The order of Go strings: byte by byte, a proper prefix first.
RECURSIVE LexLess(_, _)
LexLess(a, b) ==
    IF a = <<>> THEN b # <<>>
    ELSE IF b = <<>> THEN FALSE
    ELSE IF Head(a) = Head(b) THEN LexLess(Tail(a), Tail(b))
    ELSE CharRank(Head(a)) < CharRank(Head(b))

\* sort.Strings.
SortStrings(strs) == SortSeq(strs, LexLess)

\* containsString(slice, s).
containsStringNever(slice, x) == FALSE

containsString(slice, x) == \E i \in 1..Len(slice) : slice[i] = x

\* removeString(slice, s): slice without every occurrence of s.
RECURSIVE removeString(_, _)
removeString(slice, x) ==
    IF slice = <<>> THEN <<>>
    ELSE IF Head(slice) = x THEN removeString(Tail(slice), x)
    ELSE <<Head(slice)>> \o removeString(Tail(slice), x)

\* The inner loop of runLinkAdd for one ticket: each id of new that links
\* does not hold is appended to it.
RECURSIVE AppendMissing(_, _)
AppendMissing(links, new) ==
    IF new = <<>> THEN links
    ELSE AppendMissing(IF containsString(links, Head(new)) THEN links
                       ELSE Append(links, Head(new)),
                       Tail(new))

\* The ids of the tickets of the handles hs other than the i-th, in order.
OtherIds(hs, i) ==
    [j \in 1..(Len(hs) - 1) |-> hs[IF j < i THEN j ELSE j + 1].Ticket.ID]

\* runLinkAdd: the symmetric links between all pairs of the locked tickets.
LinkAll(hs) ==
    [i \in 1..Len(hs) |->
        [hs[i] EXCEPT !.Ticket.Links = AppendMissing(@, OtherIds(hs, i))]]

\* A deferred loop that releases nothing: the lock table stays as it is.
ReleaseEachNone(L, p, hs) == L

\* The deferred loop of runLinkAdd: Release on each handle of hs.
RECURSIVE ReleaseEach(_, _, _)
ReleaseEach(L, p, hs) ==
    IF hs = <<>> THEN L
    ELSE ReleaseEach(IF Head(hs).held THEN Unlock(L, p, lockPath(Head(hs).id)) ELSE L,
                     p, Tail(hs))

\* A link command ends: the process exits, with the error RunE returned
\* (err is left as it is) and the command's name still on record.
ExitLink(p) ==
    /\ pc' = [pc EXCEPT ![p] = "idle"]
    /\ tk' = [tk EXCEPT ![p] = NoTicket]
    /\ lt' = [lt EXCEPT ![p] = NoHandle]
    /\ op' = [op EXCEPT ![p] = ""]
    /\ part' = [part EXCEPT ![p] = <<>>]
    /\ matches' = [matches EXCEPT ![p] = {}]
    /\ out' = [out EXCEPT ![p] = NoResult]
    /\ UNCHANGED <<err, cmd>>
    /\ todo' = [todo EXCEPT ![p] = <<>>]
    /\ ids' = [ids EXCEPT ![p] = <<>>]
    /\ locked' = [locked EXCEPT ![p] = <<>>]

\* The handle a link command saves next: the first that still has its lock.
NextHeld(hs) == CHOOSE i \in 1..Len(hs) : hs[i].held /\ \A j \in 1..(i - 1) : ~hs[j].held

\* runLinkAdd: Resolve of an argument has returned.  On its error the
\* command ends; else the ticket's ID is kept, and the next argument is
\* resolved or, after the last, the ids are sorted and the first is locked.
LinkAddResolved(p) ==
    /\ pc[p] = "runLinkAdd_resolved"
    /\ IF err[p] # NoErr
       THEN /\ ExitLink(p)
            /\ UNCHANGED <<stk, aid, lpath, lshared>>
       ELSE /\ IF todo[p] # <<>>
               THEN /\ ids' = [ids EXCEPT ![p] = Append(@, tk[p].ID)]
                    /\ CallResolve(p, Head(todo[p]), <<"runLinkAdd_resolved">>)
                    /\ todo' = [todo EXCEPT ![p] = Tail(@)]
               ELSE /\ ids' = [ids EXCEPT ![p] = SortStrings(Append(@, tk[p].ID))]
                    /\ CallGetForUpdate(p, ids'[p][1], <<"runLinkAdd_locked">>)
                    /\ UNCHANGED <<todo, part>>
            /\ UNCHANGED <<err, tk, lt, op, matches, cmd, out, locked>>
    /\ UNCHANGED <<writeVars, locks, fn, calls, listed, gate>>

\* runLinkAdd: GetForUpdate has returned.  On its error the handles held are
\* released and the command ends; else the handle is kept and the next id is
\* locked or, after the last, the links are added in memory and the first
\* handle is saved.
LinkAddLocked(p) ==
    /\ pc[p] = "runLinkAdd_locked"
    /\ IF err[p] # NoErr
       THEN /\ locks' = ReleaseEach(locks, p, locked[p])
            /\ ExitLink(p)
            /\ UNCHANGED <<stk, aid, lpath, lshared>>
       ELSE LET hs == Append(locked[p], lt[p])
            IN  /\ IF Len(hs) < Len(ids[p])
                   THEN /\ locked' = [locked EXCEPT ![p] = hs]
                        /\ CallGetForUpdate(p, ids[p][Len(hs) + 1], <<"runLinkAdd_locked">>)
                        /\ UNCHANGED lt
                   ELSE /\ locked' = [locked EXCEPT ![p] = LinkAll(hs)]
                        /\ lt' = [lt EXCEPT ![p] = LinkAll(hs)[1]]
                        /\ pc' = [pc EXCEPT ![p] = "SaveAndRelease"]
                        /\ stk' = [stk EXCEPT ![p] = <<"runLinkAdd_saved">> \o @]
                        /\ UNCHANGED <<aid, lpath, lshared>>
                /\ UNCHANGED <<locks, err, tk, op, part, matches, cmd, out, todo, ids>>
    /\ UNCHANGED <<writeVars, fn, calls, listed, gate>>

\* runLinkAdd: SaveAndRelease of a handle has returned.  On its error the
\* handles still held are released and the command ends; else the next
\* handle is saved, or the command ends.
LinkAddSaved(p) ==
    /\ pc[p] = "runLinkAdd_saved"
    /\ LET i == NextHeld(locked[p])
           hs == [locked[p] EXCEPT ![i] = lt[p]]
       IN  IF err[p] # NoErr
           THEN /\ locks' = ReleaseEach(locks, p, hs)
                /\ ExitLink(p)
                /\ UNCHANGED stk
           ELSE IF i < Len(hs)
                THEN /\ locked' = [locked EXCEPT ![p] = hs]
                     /\ lt' = [lt EXCEPT ![p] = hs[i + 1]]
                     /\ pc' = [pc EXCEPT ![p] = "SaveAndRelease"]
                     /\ stk' = [stk EXCEPT ![p] = <<"runLinkAdd_saved">> \o @]
                     /\ UNCHANGED <<locks, err, tk, op, part, matches, cmd, out,
                                    todo, ids>>
                ELSE /\ ExitLink(p)
                     /\ UNCHANGED <<locks, stk>>
    /\ UNCHANGED <<writeVars, lpath, lshared, aid, fn, calls, listed, gate>>

\* runLinkRm: the link between the two locked tickets removed in both
\* directions.
UnlinkBoth(hs) ==
    << [hs[1] EXCEPT !.Ticket.Links = removeString(@, hs[2].Ticket.ID)],
       [hs[2] EXCEPT !.Ticket.Links = removeString(@, hs[1].Ticket.ID)] >>

\* runLinkRm: Resolve of args[0] or of args[1] has returned.  On its error
\* the command ends; after args[1] the two ids are sorted and the first is
\* locked.
LinkRmResolved(p) ==
    /\ pc[p] = "runLinkRm_resolved"
    /\ IF err[p] # NoErr
       THEN /\ ExitLink(p)
            /\ UNCHANGED <<stk, aid, lpath, lshared>>
       ELSE /\ IF todo[p] # <<>>
               THEN /\ ids' = [ids EXCEPT ![p] = Append(@, tk[p].ID)]
                    /\ CallResolve(p, Head(todo[p]), <<"runLinkRm_resolved">>)
                    /\ todo' = [todo EXCEPT ![p] = Tail(@)]
               ELSE /\ ids' = [ids EXCEPT ![p] = SortStrings(Append(@, tk[p].ID))]
                    /\ CallGetForUpdate(p, ids'[p][1], <<"runLinkRm_locked">>)
                    /\ UNCHANGED <<todo, part>>
            /\ UNCHANGED <<err, tk, lt, op, matches, cmd, out, locked>>
    /\ UNCHANGED <<writeVars, locks, fn, calls, listed, gate>>

\* runLinkRm: GetForUpdate of ids[0] or of ids[1] has returned.  On the
\* error of the second, lt1 is released; with both locked, the link is
\* removed in memory and lt1 is saved.
LinkRmLocked(p) ==
    /\ pc[p] = "runLinkRm_locked"
    /\ IF err[p] # NoErr
       THEN /\ locks' = ReleaseEach(locks, p, locked[p])
            /\ ExitLink(p)
            /\ UNCHANGED <<stk, aid, lpath, lshared>>
       ELSE LET hs == Append(locked[p], lt[p])
            IN  /\ IF Len(hs) < 2
                   THEN /\ locked' = [locked EXCEPT ![p] = hs]
                        /\ CallGetForUpdate(p, ids[p][2], <<"runLinkRm_locked">>)
                        /\ UNCHANGED lt
                   ELSE /\ locked' = [locked EXCEPT ![p] = UnlinkBoth(hs)]
                        /\ lt' = [lt EXCEPT ![p] = UnlinkBoth(hs)[1]]
                        /\ pc' = [pc EXCEPT ![p] = "SaveAndRelease"]
                        /\ stk' = [stk EXCEPT ![p] = <<"runLinkRm_saved">> \o @]
                        /\ UNCHANGED <<aid, lpath, lshared>>
                /\ UNCHANGED <<locks, err, tk, op, part, matches, cmd, out, todo, ids>>
    /\ UNCHANGED <<writeVars, fn, calls, listed, gate>>

\* runLinkRm: SaveAndRelease of lt1 or of lt2 has returned.  On the error
\* of the first, lt2 is released; after the first, lt2 is saved.
LinkRmSaved(p) ==
    /\ pc[p] = "runLinkRm_saved"
    /\ LET i == NextHeld(locked[p])
           hs == [locked[p] EXCEPT ![i] = lt[p]]
       IN  IF err[p] # NoErr
           THEN /\ locks' = ReleaseEach(locks, p, hs)
                /\ ExitLink(p)
                /\ UNCHANGED stk
           ELSE IF i < 2
                THEN /\ locked' = [locked EXCEPT ![p] = hs]
                     /\ lt' = [lt EXCEPT ![p] = hs[2]]
                     /\ pc' = [pc EXCEPT ![p] = "SaveAndRelease"]
                     /\ stk' = [stk EXCEPT ![p] = <<"runLinkRm_saved">> \o @]
                     /\ UNCHANGED <<locks, err, tk, op, part, matches, cmd, out,
                                    todo, ids>>
                ELSE /\ ExitLink(p)
                     /\ UNCHANGED <<locks, stk>>
    /\ UNCHANGED <<writeVars, lpath, lshared, aid, fn, calls, listed, gate>>

(***************************************************************************)
(* The link specification: NumLinkers callers that each run up to          *)
(* MaxLinkCmds link commands on the records of LinkIds, which start        *)
(* unlinked or linked to each other.  No write fails.                      *)
(***************************************************************************)
NumLinkers == 2

MaxLinkCmds == 1

Linkers == 1..NumLinkers

LinkIds == {<<"k", "a">>, <<"k", "b">>}

\* The arguments of a link command: two ids, in any order, distinct or not.
LinkArgs == {<<x, y>> : x \in LinkIds, y \in LinkIds}

WithLinks(t, links) == [t EXCEPT !.Links = links]

InitLink ==
    /\ InitProcs(Linkers)
    /\ \E linked \in BOOLEAN :
          /\ files = [i \in LinkIds |->
                        FileOf(WithLinks(NewTicket(i, StatusOpen, "", FALSE),
                                         IF linked
                                         THEN <<CHOOSE j \in LinkIds \ {i} : TRUE>>
                                         ELSE <<>>))]
          /\ hist = [i \in LinkIds |-> {Parse(files[i].data).t}]
    /\ locks = {}
    /\ gate = <<>>

CanLink(p) ==
    /\ pc[p] = "idle"
    /\ calls[p] < MaxLinkCmds

\* A link command starts: Resolve of its first argument.
BeginLink(p, name, args, ret) ==
    /\ Begin(p, name)
    /\ cmd' = [cmd EXCEPT ![p] = [name |-> name, status |-> "", validateClose |-> FALSE]]
    /\ out' = [out EXCEPT ![p] = NoResult]
    /\ tk' = [tk EXCEPT ![p] = NoTicket]
    /\ lt' = [lt EXCEPT ![p] = NoHandle]
    /\ matches' = [matches EXCEPT ![p] = {}]
    /\ todo' = [todo EXCEPT ![p] = Tail(args)]
    /\ CallResolve(p, Head(args), <<ret>>)

\* kt link add <id> <id>: runLinkAdd.
runLinkAdd(p) ==
    /\ CanLink(p)
    /\ \E args \in LinkArgs : BeginLink(p, "link add", args, "runLinkAdd_resolved")
    /\ UNCHANGED <<writeVars, locks, fn, batchVars, gate>>

\* kt link rm <id> <target-id>: runLinkRm.
runLinkRm(p) ==
    /\ CanLink(p)
    /\ \E args \in LinkArgs : BeginLink(p, "link rm", args, "runLinkRm_resolved")
    /\ UNCHANGED <<writeVars, locks, fn, batchVars, gate>>

NextLink ==
    \E p \in Linkers :
        \/ runLinkAdd(p)
        \/ runLinkRm(p)
        \/ LinkAddResolved(p)
        \/ LinkAddLocked(p)
        \/ LinkAddSaved(p)
        \/ LinkRmResolved(p)
        \/ LinkRmLocked(p)
        \/ LinkRmSaved(p)
        \/ ResolveExact(p)
        \/ GetLocked(p)
        \/ GetRelease(p)
        \/ GetForUpdateLocked(p)
        \/ SaveAndReleaseEntry(p)
        \/ SaveAndReleaseRelease(p)
        \/ AcquireTry(p)
        \/ AcquireRetry(p)
        \/ AcquireTimeout(p)
        \/ AwCreate(p)
        \/ AwWrite(p)
        \/ AwClose(p)
        \/ AwRename(p)

SpecLink == InitLink /\ [][NextLink]_vars

\* p waits for a lock that q holds.
WaitsFor(p, q) ==
    /\ pc[p] = "acquire_wait"
    /\ \E l \in locks : l.owner = q /\ l.path = lpath[p]
    /\ ~Compatible({l \in locks : l.owner = q}, lpath[p], AcquireMode(lshared[p]))

\* C11 as claimed: no cycle of link invocations each waiting for a lock
\* held by the next ever forms: there is no set of invocations in which
\* each one waits for a lock held by one of the set.
C11_NoWaitCycle ==
    ~(\E C \in SUBSET Linkers :
         /\ C # {}
         /\ \A p \in C : \E q \in C : WaitsFor(p, q))

\* No link command is in progress.
LinksAtRest == \A p \in Linkers : pc[p] = "idle"

InSeq(seq, x) == \E i \in 1..Len(seq) : seq[i] = x

NoDuplicates(seq) == \A i \in 1..Len(seq) : \A j \in 1..Len(seq) : seq[i] = seq[j] => i = j

\* C12: whenever no link add or link rm is in progress, B is in the stored
\* links of A exactly when A is in the stored links of B, and no stored
\* links list holds an id twice.
C12_LinksSymmetric ==
    LinksAtRest =>
        \A a \in LinkIds :
            /\ NoDuplicates(StoredTicket(a).Links)
            /\ \A b \in LinkIds :
                   InSeq(StoredTicket(a).Links, b) <=> InSeq(StoredTicket(b).Links, a)

\* C12's case: all callers have run their commands, a link add and a link rm
\* were both committed on some record over time, and the two records are
\* linked to each other.
C12_Witness ==
    /\ LinksAtRest
    /\ \A p \in Linkers : calls[p] = MaxLinkCmds
    /\ \E a \in LinkIds : \E b \in LinkIds :
          /\ a # b
          /\ StoredTicket(a).Links = <<b>>
          /\ StoredTicket(b).Links = <<a>>
          /\ \E t \in hist[a] : t.Links = <<>>
          /\ Cardinality(hist[a]) >= 2

(***************************************************************************)
(* Store.List (internal/store/store.go).                                   *)
(***************************************************************************)
\* The elements of a sequence.
Range(s) == {s[i] : i \in 1..Len(s)}

\* filepath.Glob(Dir/*.md): the names it finds, in lexical order.
GlobAll(F) ==
    LET S == {id \in DOMAIN F :
                 F[id].exists /\ Match(<<"*", ".md">>, id \o <<".md">>)}
    IN  SortStrings(CHOOSE s \in [1..Cardinality(S) -> S] : Range(s) = S)

\* Store.List: the loop over the matches goes on with the paths left after a
\* path whose ParseFile gave e (`continue` on an error).
ListRestAbort(rest, e) == IF e # NoErr THEN <<>> ELSE rest

ListRest(rest, e) == rest

\* sort.Slice by Created, newest first: any order of s that is sorted (the
\* sort is not stable).
ListSorted(s) ==
    {q \in {[i \in 1..Len(s) |-> s[f[i]]] : f \in Permutations(1..Len(s))} :
        \A i \in 1..(Len(s) - 1) : q[i].Created >= q[i + 1].Created}

\* Store.List(), from the acquisition of the shared store lock on.
CallList(p, rets) ==
    /\ pc' = [pc EXCEPT ![p] = "acquire"]
    /\ stk' = [stk EXCEPT ![p] = <<"List_glob">> \o rets \o stk[p]]
    /\ lpath' = [lpath EXCEPT ![p] = storeLockPath]
    /\ lshared' = [lshared EXCEPT ![p] = TRUE]

\* Store.List: the store lock failed, or filepath.Glob runs under it.
ListGlob(p) ==
    /\ pc[p] = "List_glob"
    /\ IF err[p] # NoErr
       THEN /\ Return(p, Wrap("acquire store lock", err[p]))
            /\ UNCHANGED <<todo, listed>>
       ELSE /\ todo' = [todo EXCEPT ![p] = GlobAll(files)]
            /\ listed' = [listed EXCEPT ![p] = <<>>]
            /\ pc' = [pc EXCEPT ![p] = "List_parse"]
            /\ UNCHANGED <<stk, err>>
    /\ UNCHANGED <<writeVars, locks, lpath, lshared, aid, tk, lt, op, fn, calls,
                   part, matches, cmd, out, gate, ids, locked>>

\* Store.List: ParseFile of the next match; a file that does not parse is
\* skipped.
ListParse(p) ==
    /\ pc[p] = "List_parse"
    /\ todo[p] # <<>>
    /\ LET r == ParseFile(files, Head(todo[p]))
       IN  /\ listed' = [listed EXCEPT ![p] =
                            IF r.err = NoErr THEN Append(@, r.t) ELSE @]
           /\ todo' = [todo EXCEPT ![p] = ListRest(Tail(@), r.err)]
    /\ UNCHANGED <<writeVars, locks, pc, stk, err, lpath, lshared, aid, tk, lt,
                   op, fn, calls, part, matches, cmd, out, gate, ids, locked>>

\* Store.List: after the last match the tickets are sorted, and the deferred
\* release of the store lock runs as List returns them.
ListRelease(p) ==
    /\ pc[p] = "List_parse"
    /\ todo[p] = <<>>
    /\ \E q \in ListSorted(listed[p]) : listed' = [listed EXCEPT ![p] = q]
    /\ locks' = Unlock(locks, p, storeLockPath)
    /\ Return(p, NoErr)
    /\ UNCHANGED <<writeVars, lpath, lshared, aid, tk, lt, op, fn, calls, part,
                   matches, todo, cmd, out, gate, ids, locked>>

(***************************************************************************)
(* The list specification: callers of List on a store at rest whose        *)
(* directory holds, for each name of ListIds, no file, a record file, or   *)
(* an empty file (which does not parse).                                   *)
(***************************************************************************)
NumListers == 2

Listers == 1..NumListers

ListIds == {<<"k", "a">>, <<"k", "b">>, <<"k", "c">>}

\* The times of creation of the records: two of them are equal.
CreatedAt(id) == IF id = <<"k", "b">> THEN 2 ELSE 1

EmptyFile == [exists |-> TRUE, data |-> <<>>]

InitList ==
    /\ InitProcs(Listers)
    /\ \E good \in SUBSET ListIds : \E bad \in SUBSET (ListIds \ good) :
          files = [i \in ListIds |->
                     IF i \in good
                     THEN FileOf([NewTicket(i, StatusOpen, "", FALSE)
                                     EXCEPT !.Created = CreatedAt(i)])
                     ELSE IF i \in bad THEN EmptyFile ELSE NoFile]
    /\ locks = {}
    /\ hist = <<>>
    /\ gate = <<>>

\* Store.List().
ListCall(p) ==
    /\ CanCall(p)
    /\ Begin(p, "List")
    /\ CallList(p, <<"idle">>)
    /\ UNCHANGED <<writeVars, locks, aid, tk, lt, fn, cmdVars>>

NextList ==
    \E p \in Listers :
        \/ ListCall(p)
        \/ AcquireTry(p)
        \/ ListGlob(p)
        \/ ListParse(p)
        \/ ListRelease(p)

SpecList == InitList /\ [][NextList]_vars

\* The records of the files of F that parse.
Parseable(F) ==
    {ParseFile(F, id).t : id \in {i \in Stored(F) : ParseFile(F, i).err = NoErr}}

\* C15: when List has returned, it returned no error and exactly the
\* records of the files of the directory that parse, each once, newest
\* first: the files that do not parse are left out and nothing else is.
C15_ListParseable ==
    \A p \in Listers :
        (pc[p] = "idle" /\ op[p] = "List") =>
            /\ err[p] = NoErr
            /\ Range(listed[p]) = Parseable(files)
            /\ Len(listed[p]) = Cardinality(Parseable(files))
            /\ \A i \in 1..(Len(listed[p]) - 1) :
                  listed[p][i].Created >= listed[p][i + 1].Created

\* List has returned the records on both sides of a file that does not
\* parse.
C15_Witness ==
    \E p \in Listers :
        /\ pc[p] = "idle" /\ op[p] = "List"
        /\ files[<<"k", "b">>] = EmptyFile
        /\ {t.ID : t \in Range(listed[p])} = {<<"k", "a">>, <<"k", "c">>}

(***************************************************************************)
(* A crash of the writing process (internal/ticket/ticket.go atomicWrite). *)
(***************************************************************************)
\* The process p dies in the middle of a call.  The kernel closes its files,
\* which drops its flocks; nothing removes its temp file, which holds what
\* was written to it: any part of the data when the crash is in tmp.Write.
Crash(p) ==
    /\ pc[p] \notin {"idle", "crashed"}
    /\ pc' = [pc EXCEPT ![p] = "crashed"]
    /\ stk' = [stk EXCEPT ![p] = <<>>]
    /\ locks' = {l \in locks : l.owner # p}
    /\ IF pc[p] = "aw_write"
       THEN \E n \in 0..Len(wdata[p]) :
               tmp' = [tmp EXCEPT ![p].data = SubSeq(wdata[p], 1, n)]
       ELSE UNCHANGED tmp
    /\ UNCHANGED <<files, wpath, wdata, hist, err, lpath, lshared, aid, tk, lt,
                   op, fn, calls, cmdVars>>

(***************************************************************************)
(* The crash specification: NumWriters processes that each write the       *)
(* record RecId once, with Save or Update, and may crash at any step.      *)
(***************************************************************************)
NumWriters == 2

Writers == 1..NumWriters

InitCrash ==
    /\ InitProcs(Writers)
    /\ \E stored \in BOOLEAN :
          /\ files = [i \in StoreIds |->
                        IF stored THEN FileOf(NewTicket(i, StatusOpen, "", FALSE))
                        ELSE NoFile]
          /\ hist = [i \in StoreIds |->
                       IF stored THEN {NewTicket(i, StatusOpen, "", FALSE)} ELSE {}]
    /\ locks = {}
    /\ gate = <<>>

\* Store.Save(t), t a record of the writer's own making.
CrashSaveCall(p) ==
    /\ CanCall(p)
    /\ Begin(p, "Save")
    /\ \E id \in StoreIds :
          CallSave(p, [NewTicket(id, StatusInProgress, "", FALSE)
                          EXCEPT !.Priority = p], <<"idle">>)
    /\ UNCHANGED <<writeVars, locks, aid, lt, fn, cmdVars>>

NextCrash ==
    \E p \in Writers :
        \/ CrashSaveCall(p)
        \/ StoreUpdateCall(p)
        \/ AcquireTry(p)
        \/ AcquireRetry(p)
        \/ AcquireTimeout(p)
        \/ SaveLocked(p)
        \/ SaveRelease(p)
        \/ GetForUpdateLocked(p)
        \/ GetForUpdateUnlock(p)
        \/ UpdateFn(p)
        \/ UpdateRelease(p)
        \/ AwCreate(p)
        \/ AwWrite(p)
        \/ AwClose(p)
        \/ AwRename(p)
        \/ AwFail(p)
        \/ Crash(p)

SpecCrash == InitCrash /\ [][NextCrash]_vars

\* The record file of id holds the whole of what Marshal gives for a ticket
\* whose write was committed (or for the ticket stored at the start).
WholeRecord(id) ==
    \E t \in hist[id] : files[id] = FileOf(t)

\* C16: whatever step of a record write a process crashes at, the record
\* file holds the complete content of a committed write or the complete
\* content it had before, or does not exist when it never did; and the step
\* in which a process crashes leaves the record file as it was.
C16_CrashAtomic ==
    /\ \A id \in StoreIds :
          IF files[id].exists THEN WholeRecord(id) ELSE hist[id] = {}
    /\ \A p \in Writers :
          (pc[p] = "crashed" /\ wpath[p] # <<>>) =>
             \/ files[wpath[p]].exists /\ files[wpath[p]].data # wdata[p]
                   /\ WholeRecord(wpath[p])
             \/ files[wpath[p]].exists /\ files[wpath[p]].data = wdata[p]
             \/ ~files[wpath[p]].exists /\ hist[wpath[p]] = {}

\* A process crashed in the middle of tmp.Write, leaving a part of its data
\* in its temp file, and the record file holds the whole record that
\* another process wrote afterwards.
C16_Witness ==
    \E p \in Writers, q \in Writers :
        /\ p # q
        /\ pc[p] = "crashed" /\ tmp[p].exists
        /\ Len(tmp[p].data) = 1 /\ Len(wdata[p]) = 2
        /\ pc[q] = "idle" /\ op[q] = "Save" /\ err[q] = NoErr
        /\ files[RecId] = FileOf([NewTicket(RecId, StatusInProgress, "", FALSE)
                                     EXCEPT !.Priority = q])

(***************************************************************************)
(* kt purge (internal/cmd/purge.go).                                       *)
(***************************************************************************)
\* runPurge: the tickets of all whose status is closed, in the order of all.
ClosedOf(all) == SelectSeq(all, LAMBDA t : t.Status = StatusClosed)

ErrCannotPurge == <<"cannot purge">>

\* validatePurge(allTickets, closedTickets): an error when a ticket of all
\* that is not closed has a ticket of closed as its parent, among its deps
\* or among its links.
validatePurgeNever(all, closed) == NoErr

validatePurge(all, closed) ==
    LET closedSet == {t.ID : t \in Range(closed)}
    IN  IF \E t \in Range(all) :
              /\ t.Status # StatusClosed
              /\ \/ t.Parent # <<>> /\ t.Parent \in closedSet
                 \/ \E d \in Range(t.Deps) : d \in closedSet
                 \/ \E l \in Range(t.Links) : l \in closedSet
        THEN ErrCannotPurge
        ELSE NoErr

ErrRefuseJSON == <<"refusing to purge in JSON mode">>

\* runPurge returns e: the command is over and its locals are gone; the
\* error it ended with is kept.
ExitPurge(p, e) ==
    /\ pc' = [pc EXCEPT ![p] = "idle"]
    /\ err' = [err EXCEPT ![p] = e]
    /\ tk' = [tk EXCEPT ![p] = NoTicket]
    /\ lt' = [lt EXCEPT ![p] = NoHandle]
    /\ part' = [part EXCEPT ![p] = <<>>]
    /\ matches' = [matches EXCEPT ![p] = {}]
    /\ cmd' = [cmd EXCEPT ![p] = NoCmd]
    /\ out' = [out EXCEPT ![p] = NoResult]
    /\ ids' = [ids EXCEPT ![p] = <<>>]
    /\ listed' = [listed EXCEPT ![p] = <<>>]
    /\ UNCHANGED op

\* runPurge: Store.List has returned.  Its error, no closed ticket, the
\* error of validatePurge or JSON mode end the command; else the closed
\* tickets are shown and the confirmation is asked for.
PurgeListed(p) ==
    /\ pc[p] = "runPurge_listed"
    /\ IF \/ err[p] # NoErr
          \/ ClosedOf(listed[p]) = <<>>
          \/ validatePurge(listed[p], ClosedOf(listed[p])) # NoErr
       THEN ExitPurge(p, IF err[p] # NoErr THEN Wrap("list tickets", err[p])
                         ELSE IF ClosedOf(listed[p]) = <<>> THEN NoErr
                         ELSE validatePurge(listed[p], ClosedOf(listed[p])))
       ELSE \E json \in BOOLEAN :
               IF json
               THEN ExitPurge(p, ErrRefuseJSON)
               ELSE /\ ids' = [ids EXCEPT ![p] =
                                 [i \in 1..Len(ClosedOf(listed[p])) |->
                                     ClosedOf(listed[p])[i].ID]]
                    /\ pc' = [pc EXCEPT ![p] = "runPurge_prompt"]
                    /\ UNCHANGED <<err, tk, lt, op, part, matches, cmd, out, listed>>
    /\ UNCHANGED <<writeVars, locks, stk, lpath, lshared, aid, fn, calls, todo,
                   gate, locked>>

\* runPurge: promptConfirmation: the user's answer.
PurgePrompt(p) ==
    /\ pc[p] = "runPurge_prompt"
    /\ \E confirmed \in BOOLEAN :
          IF confirmed
          THEN /\ pc' = [pc EXCEPT ![p] = "runPurge_remove"]
               /\ UNCHANGED <<err, tk, lt, op, part, matches, cmd, out, listed, ids>>
          ELSE ExitPurge(p, NoErr)
    /\ UNCHANGED <<writeVars, locks, stk, lpath, lshared, aid, fn, calls, todo,
                   gate, locked>>

\* runPurge: os.Remove of the file of the next closed ticket, which ends the
\* command when it fails; the end of the command after the last.
PurgeRemove(p) ==
    /\ pc[p] = "runPurge_remove"
    /\ IF ids[p] = <<>> \/ ~files[Head(ids[p])].exists
       THEN /\ ExitPurge(p, IF ids[p] = <<>> THEN NoErr
                              ELSE Wrap("delete", ErrNotExist))
            /\ UNCHANGED files
       ELSE /\ files' = [files EXCEPT ![Head(ids[p])] = NoFile]
            /\ ids' = [ids EXCEPT ![p] = Tail(@)]
            /\ UNCHANGED <<pc, err, tk, lt, op, part, matches, cmd, out, listed>>
    /\ UNCHANGED <<tmp, wpath, wdata, hist, locks, stk, lpath, lshared, aid, fn,
                   calls, todo, gate, locked>>

(***************************************************************************)
(* The purge specification: kt purge next to kt reopen of the closed       *)
(* record RecId, in a store that also holds an open record which may       *)
(* refer to RecId as its parent, a dep or a link.                          *)
(***************************************************************************)
NumPurgeClients == 2

PurgeClients == 1..NumPurgeClients

OtherId == <<"k", "t", "2">>

PurgeIds == {RecId, OtherId}

InitPurge ==
    /\ InitProcs(PurgeClients)
    /\ \E ref \in {"none", "parent", "dep", "link"} :
          files = [i \in PurgeIds |->
                     IF i = RecId
                     THEN FileOf(NewTicket(i, StatusClosed, "", FALSE))
                     ELSE FileOf([NewTicket(i, StatusOpen, "", FALSE) EXCEPT
                                    !.Parent = IF ref = "parent" THEN RecId ELSE <<>>,
                                    !.Deps = IF ref = "dep" THEN <<RecId>> ELSE <<>>,
                                    !.Links = IF ref = "link" THEN <<RecId>> ELSE <<>>])]
    /\ locks = {}
    /\ hist = <<>>
    /\ gate = <<>>

\* kt purge: runPurge, from Store.List on.
runPurge(p) ==
    /\ CanCall(p)
    /\ Begin(p, "purge")
    /\ CallList(p, <<"runPurge_listed">>)
    /\ UNCHANGED <<writeVars, locks, aid, tk, lt, fn, cmdVars>>

\* kt reopen t1, once.
PurgeReopen(p) ==
    /\ CanCall(p)
    /\ runReopen(p)

NextPurge ==
    \E p \in PurgeClients :
        \/ runPurge(p)
        \/ PurgeReopen(p)
        \/ ListGlob(p)
        \/ ListParse(p)
        \/ ListRelease(p)
        \/ PurgeListed(p)
        \/ PurgePrompt(p)
        \/ PurgeRemove(p)
        \/ SetStatusLoop(p)
        \/ SetStatusResolved(p)
        \/ SetStatusSaved(p)
        \/ ResolveForUpdateResolved(p)
        \/ ResolveExact(p)
        \/ ResolveGlob(p)
        \/ ResolveUnlock(p)
        \/ GetLocked(p)
        \/ GetRelease(p)
        \/ GetForUpdateLocked(p)
        \/ SaveAndReleaseEntry(p)
        \/ SaveAndReleaseRelease(p)
        \/ AcquireTry(p)
        \/ AwCreate(p)
        \/ AwWrite(p)
        \/ AwClose(p)
        \/ AwRename(p)

SpecPurge == InitPurge /\ [][NextPurge]_vars

\* The record of the file of id in F is closed, and no record of F that is
\* not closed has id as its parent, among its deps or among its links.
Purgeable(F, id) ==
    /\ ParseFile(F, id).t.Status = StatusClosed
    /\ \A j \in Stored(F) :
          LET t == ParseFile(F, j).t
          IN  t.Status # StatusClosed =>
                 /\ t.Parent # id
                 /\ \A n \in 1..Len(t.Deps) : t.Deps[n] # id
                 /\ \A n \in 1..Len(t.Links) : t.Links[n] # id

\* C17 as claimed: in every step in which purge removes the file of a
\* record, the record is, in the store as it is at that step, closed and
\* not referred to by a record that is not closed.
C17_PurgeOnlyClosed ==
    [][\A id \in PurgeIds :
          (files[id].exists /\ ~files'[id].exists) => Purgeable(files, id)]_vars

(***************************************************************************)
(* The batch specification: one kt start, close, reopen or pass with       *)
(* MaxBatch arguments, on a store of two records: BatchGated has a tests   *)
(* section and tests that did not pass, BatchFree has no tests section.    *)
(***************************************************************************)
MaxBatch == 2

BatchClients == {1}

BatchGated == <<"k", "t", "1">>

BatchFree == <<"k", "t", "2">>

BatchIds == {BatchGated, BatchFree}

\* The arguments: a part of each id, a part of both, a part of none.
BatchPartials == {<<"t", "1">>, <<"t", "2">>, <<"k", "t">>, <<"t", "9">>}

BatchCmds ==
    {[name |-> "start", status |-> StatusInProgress, validateClose |-> FALSE],
     [name |-> "close", status |-> StatusClosed, validateClose |-> TRUE],
     [name |-> "reopen", status |-> StatusOpen, validateClose |-> FALSE],
     [name |-> "pass", status |-> "", validateClose |-> FALSE]}

InitBatch ==
    /\ InitProcs(BatchClients)
    /\ files = [i \in BatchIds |->
                  IF i = BatchGated
                  THEN FileOf(NewTicket(i, StatusInProgress, TestsSection, FALSE))
                  ELSE FileOf(NewTicket(i, StatusInProgress, "", FALSE))]
    /\ hist = <<>>
    /\ locks = {}
    /\ gate = <<>>

\* kt start / close / reopen / pass <id>...: the arguments are kept in ids.
runBatch(p) ==
    /\ CanCall(p)
    /\ \E c \in BatchCmds, args \in [1..MaxBatch -> BatchPartials] :
          /\ BeginCmd(p, c, args)
          /\ ids' = [ids EXCEPT ![p] = args]
          /\ pc' = [pc EXCEPT ![p] = IF c.name = "pass" THEN "runPass_loop"
                                     ELSE "setStatusMultiple_loop"]
    /\ UNCHANGED <<writeVars, locks, stk, lpath, lshared, aid, fn, locked, listed,
                   gate>>

NextBatch ==
    \E p \in BatchClients :
        \/ runBatch(p)
        \/ SetStatusLoop(p)
        \/ SetStatusResolved(p)
        \/ SetStatusSaved(p)
        \/ RunPassLoop(p)
        \/ RunPassResolved(p)
        \/ RunPassSaved(p)
        \/ ResolveForUpdateResolved(p)
        \/ ResolveExact(p)
        \/ ResolveGlob(p)
        \/ ResolveUnlock(p)
        \/ GetLocked(p)
        \/ GetRelease(p)
        \/ GetForUpdateLocked(p)
        \/ SaveAndReleaseEntry(p)
        \/ SaveAndReleaseRelease(p)
        \/ AcquireTry(p)
        \/ AwCreate(p)
        \/ AwWrite(p)
        \/ AwClose(p)
        \/ AwRename(p)
        \/ AwFail(p)

SpecBatch == InitBatch /\ [][NextBatch]_vars

\* The record the argument a stands for, when it is a part of one id only.
BatchRecord(a) ==
    IF a = <<"t", "1">> THEN BatchGated
    ELSE IF a = <<"t", "2">> THEN BatchFree ELSE <<>>

\* The command p ran all its arguments: it is at the head of its loop with
\* none left.
BatchDone(p) ==
    /\ pc[p] \in {"setStatusMultiple_loop", "runPass_loop"}
    /\ todo[p] = <<>>

\* How many elements of the sequence s satisfy Test.
Count(s, Test(_)) == Cardinality({i \in 1..Len(s) : Test(s[i])})

\* C18: a batch command never ends before its last argument, and when it
\* has run them all, every argument has its own entry: an argument that
\* stands for no record or for several has an error under its name; the
\* record whose tests did not pass has one error per argument naming it
\* when the command is close, and stays as it was; every other argument's
\* record is in Updated, with its new status or tests_passed in the store,
\* or has the error of its own failed save.
C18_BatchIndependent ==
    \A p \in BatchClients :
        /\ (pc[p] = "idle" /\ op[p] = "") => todo[p] = <<>>
        /\ BatchDone(p) =>
              LET U == out[p].Updated
                  E == out[p].Errors
                  A == ids[p]
              IN  /\ Len(U) + Len(E) = Len(A)
                  /\ \A a \in {<<"k", "t">>, <<"t", "9">>} :
                        Count(E, LAMBDA e : e.ID = a /\ e.Error =
                                 (IF a = <<"k", "t">> THEN ErrAmbiguous
                                  ELSE ErrNotFound))
                           = Count(A, LAMBDA x : x = a)
                  /\ \A r \in BatchIds :
                        Count(U, LAMBDA u : u = r) + Count(E, LAMBDA e : e.ID = r)
                           = Count(A, LAMBDA x : BatchRecord(x) = r)
                  /\ cmd[p].name = "close" =>
                        /\ Count(U, LAMBDA u : u = BatchGated) = 0
                        /\ \A i \in 1..Len(E) :
                              E[i].ID = BatchGated =>
                                 E[i].Error = CanClose(StoredTicket(BatchGated))
                        /\ StoredTicket(BatchGated).Status = StatusInProgress
                  /\ \A i \in 1..Len(E) :
                        (E[i].ID \in BatchIds
                           /\ ~(cmd[p].name = "close" /\ E[i].ID = BatchGated))
                        => E[i].Error[Len(E[i].Error)] = "i/o error"
                  /\ \A i \in 1..Len(U) :
                        IF cmd[p].name = "pass"
                        THEN StoredTicket(U[i]).TestsPassed
                        ELSE StoredTicket(U[i]).Status = cmd[p].status

\* A close of two arguments ran to its end: the first, the record whose
\* tests did not pass, has its error, and the second was updated and is
\* closed in the store.
C18_Witness ==
    \E p \in BatchClients :
        /\ BatchDone(p)
        /\ cmd[p].name = "close"
        /\ ids[p] = <<<<"t", "1">>, <<"t", "2">>>>
        /\ out[p].Updated = <<BatchFree>>
        /\ Len(out[p].Errors) = 1 /\ out[p].Errors[1].ID = BatchGated
        /\ StoredTicket(BatchFree).Status = StatusClosed

(***************************************************************************)
(* The text of a record file (internal/ticket/ticket.go): Marshal,         *)
(* splitFrontmatter and parseBody on strings of characters.  Of the        *)
(* frontmatter, which yaml.v3 writes and reads, the lines of id and status *)
(* are kept.                                                               *)
(***************************************************************************)
\* strings.TrimSpace, HasPrefix, TrimPrefix, ToLower, Split(s, "\n").
IsSpace(c) == c \in {" ", "\n"}

RECURSIVE TrimLeft(_)
TrimLeft(s) == IF s # <<>> /\ IsSpace(Head(s)) THEN TrimLeft(Tail(s)) ELSE s

RECURSIVE TrimRight(_)
TrimRight(s) ==
    IF s # <<>> /\ IsSpace(s[Len(s)]) THEN TrimRight(SubSeq(s, 1, Len(s) - 1)) ELSE s

TrimSpace(s) == TrimRight(TrimLeft(s))

HasPrefix(s, pre) == Len(s) >= Len(pre) /\ SubSeq(s, 1, Len(pre)) = pre

TrimPrefix(s, pre) == IF HasPrefix(s, pre) THEN SubSeq(s, Len(pre) + 1, Len(s)) ELSE s

ToLower(s) ==
    [i \in 1..Len(s) |->
        CASE s[i] = "A" -> "a" [] s[i] = "C" -> "c" [] s[i] = "D" -> "d"
          [] s[i] = "N" -> "n" [] s[i] = "T" -> "t" [] OTHER -> s[i]]

RECURSIVE Split(_)
Split(s) ==
    IF \E i \in 1..Len(s) : s[i] = "\n"
    THEN LET i == CHOOSE k \in 1..Len(s) :
                     s[k] = "\n" /\ \A j \in 1..(k - 1) : s[j] # "\n"
         IN  <<SubSeq(s, 1, i - 1)>> \o Split(SubSeq(s, i + 1, Len(s)))
    ELSE <<s>>

\* bufio.Scanner with ScanLines: the lines of s without their newline; no
\* empty last line after a final newline.
ScanLines(s) ==
    LET parts == Split(s)
    IN  IF parts[Len(parts)] = <<>> THEN SubSeq(parts, 1, Len(parts) - 1) ELSE parts

\* The lines, each with its newline, put together again.
RECURSIVE JoinLines(_)
JoinLines(lines) ==
    IF lines = <<>> THEN <<>> ELSE Head(lines) \o <<"\n">> \o JoinLines(Tail(lines))

Delimiter == <<"-", "-", "-">>
KeyId == <<"i", "d", ":", " ">>
KeyStatus == <<"s", "t", "a", "t", "u", "s", ":", " ">>
HeaderDesign == <<"#", "#", " ", "D", "e", "s", "i", "g", "n">>
HeaderAcceptance == <<"#", "#", " ", "A", "c", "c", "e", "p", "t", "a", "n", "c", "e", " ", "C", "r", "i", "t", "e", "r", "i", "a">>
HeaderTests == <<"#", "#", " ", "T", "e", "s", "t", "s">>
HeaderNotes == <<"#", "#", " ", "N", "o", "t", "e", "s">>

\* yaml.Marshal(t) and yaml.Unmarshal(frontmatter, t), for id and status.
yamlMarshal(t) == KeyId \o t.ID \o <<"\n">> \o KeyStatus \o t.Status \o <<"\n">>

yamlValue(lines, key) ==
    IF \E i \in 1..Len(lines) : HasPrefix(lines[i], key)
    THEN TrimPrefix(lines[CHOOSE i \in 1..Len(lines) : HasPrefix(lines[i], key)], key)
    ELSE <<>>

\* Marshal: a section of the body, written when its text is not empty.
MarshalSection(header, text) ==
    IF text = <<>> THEN <<>>
    ELSE <<"\n">> \o header \o <<"\n", "\n">> \o text \o <<"\n">>

\* Marshal: the frontmatter between the delimiters, the title line, the
\* description, then the sections.
MarshalText(t) ==
    Delimiter \o <<"\n">> \o yamlMarshal(t) \o Delimiter \o <<"\n">>
    \o <<"#", " ">> \o t.Title \o <<"\n">>
    \o (IF t.Description = <<>> THEN <<>>
        ELSE <<"\n">> \o t.Description \o <<"\n">>)
    \o MarshalSection(HeaderDesign, t.Design)
    \o MarshalSection(HeaderAcceptance, t.AcceptanceCriteria)
    \o MarshalSection(HeaderTests, t.Tests)
    \o MarshalSection(HeaderNotes, t.Notes)

ErrMissingDelimiter == <<"missing frontmatter delimiter">>

\* splitFrontmatter: the first line is the delimiter; the frontmatter is the
\* lines up to the next delimiter and the body is the lines after it.
splitFrontmatter(data) ==
    LET lines == ScanLines(data)
        IsDelim(l) == TrimSpace(l) = Delimiter
        rest == Tail(lines)
        close == IF \E i \in 1..Len(rest) : IsDelim(rest[i])
                 THEN CHOOSE i \in 1..Len(rest) :
                         IsDelim(rest[i]) /\ \A j \in 1..(i - 1) : ~IsDelim(rest[j])
                 ELSE Len(rest) + 1
    IN  IF lines = <<>>
        THEN [frontmatter |-> <<>>, body |-> <<>>, err |-> ErrEmptyFile]
        ELSE IF ~IsDelim(lines[1])
             THEN [frontmatter |-> <<>>, body |-> <<>>, err |-> ErrMissingDelimiter]
             ELSE [frontmatter |-> SubSeq(rest, 1, close - 1),
                   body |-> JoinLines(SubSeq(rest, close + 1, Len(rest))),
                   err |-> NoErr]

\* parseBody: flushSection gives the trimmed content to the field of the
\* current section and empties the content.
flushSection(st) ==
    LET content == TrimSpace(st.content)
        t == st.t
    IN  [st EXCEPT
           !.content = <<>>,
           !.t = CASE st.cur = "title" -> [t EXCEPT !.Title = content]
                   [] st.cur = "description" -> [t EXCEPT !.Description = content]
                   [] st.cur = "design" -> [t EXCEPT !.Design = content]
                   [] st.cur = "acceptance" -> [t EXCEPT !.AcceptanceCriteria = content]
                   [] st.cur = "tests" -> [t EXCEPT !.Tests = content]
                   [] st.cur = "notes" -> [t EXCEPT !.Notes = content]
                   [] OTHER -> t]

\* parseBody: the section a "## " header line opens.
SectionOf(header) ==
    IF Contains(header, <<"d", "e", "s", "i", "g", "n">>) THEN "design"
    ELSE IF Contains(header, <<"a", "c", "c", "e", "p", "t", "a", "n", "c", "e">>)
    THEN "acceptance"
    ELSE IF Contains(header, <<"t", "e", "s", "t">>) THEN "tests"
    ELSE IF Contains(header, <<"n", "o", "t", "e">>) THEN "notes"
    ELSE "description"

\* parseBody: one line of the body.
parseLine(st, line) ==
    LET trimmed == TrimSpace(line)
    IN  IF HasPrefix(trimmed, <<"#", " ">>) /\ st.cur = ""
        THEN [flushSection(st) EXCEPT
                !.cur = "title", !.content = TrimPrefix(trimmed, <<"#", " ">>)]
        ELSE IF HasPrefix(trimmed, <<"#", "#", " ">>)
        THEN [flushSection(st) EXCEPT
                !.cur = SectionOf(ToLower(TrimPrefix(trimmed, <<"#", "#", " ">>)))]
        ELSE IF st.cur = "title" /\ trimmed = <<>>
        THEN [flushSection(st) EXCEPT !.cur = "description"]
        ELSE [st EXCEPT !.content = @ \o line \o <<"\n">>]

RECURSIVE parseLines(_, _)
parseLines(st, lines) ==
    IF lines = <<>> THEN st ELSE parseLines(parseLine(st, Head(lines)), Tail(lines))

\* parseBody(t, body): the lines of strings.Split(body, "\n") in turn, then
\* the last flushSection.
parseBody(t, body) ==
    flushSection(parseLines([cur |-> "", content |-> <<>>, t |-> t], Split(body))).t

\* A Ticket with no field set.
EmptyTicket ==
    [ID |-> <<>>, Status |-> <<>>, Title |-> <<>>, Description |-> <<>>,
     Design |-> <<>>, AcceptanceCriteria |-> <<>>, Tests |-> <<>>, Notes |-> <<>>]

\* Parse(data): splitFrontmatter, yaml.Unmarshal, parseBody.
ParseText(data) ==
    LET sp == splitFrontmatter(data)
    IN  IF sp.err # NoErr
        THEN [t |-> NoTicket, err |-> sp.err]
        ELSE [t |-> parseBody([EmptyTicket EXCEPT
                                  !.ID = yamlValue(sp.frontmatter, KeyId),
                                  !.Status = yamlValue(sp.frontmatter, KeyStatus)],
                              sp.body),
              err |-> NoErr]

(***************************************************************************)
(* The codec specification: a Ticket with one of its texts any string of   *)
(* at most MaxTextLen characters of TextChars is written with Marshal and  *)
(* read back with Parse.                                                   *)
(***************************************************************************)
MaxTextLen == 4

TextChars == {"a", " ", "#", "\n"}

Texts == UNION {[1..n -> TextChars] : n \in 0..MaxTextLen}

TextFields == {"Title", "Description", "Design", "AcceptanceCriteria", "Tests", "Notes"}

Coders == {1}

\* The Ticket with the text x in the field f, the title "a" when f is not the
\* title, and the text rest in the other sections.
TextTicket(f, x, rest) ==
    [ID |-> <<"k", "1">>,
     Status |-> <<"o", "p", "e", "n">>,
     Title |-> IF f = "Title" THEN x ELSE <<"a">>,
     Description |-> IF f = "Description" THEN x ELSE rest,
     Design |-> IF f = "Design" THEN x ELSE rest,
     AcceptanceCriteria |-> IF f = "AcceptanceCriteria" THEN x ELSE rest,
     Tests |-> IF f = "Tests" THEN x ELSE rest,
     Notes |-> IF f = "Notes" THEN x ELSE rest]

InitCodec ==
    /\ tmp = [p \in Coders |-> NoFile]
    /\ pc = [p \in Coders |-> "idle"]
    /\ stk = [p \in Coders |-> <<>>]
    /\ lpath = [p \in Coders |-> <<>>]
    /\ lshared = [p \in Coders |-> FALSE]
    /\ err = [p \in Coders |-> NoErr]
    /\ aid = [p \in Coders |-> <<>>]
    /\ \E f \in TextFields, x \in Texts, rest \in {<<>>, <<"a">>} :
          tk = [p \in Coders |-> TextTicket(f, x, rest)]
    /\ lt = [p \in Coders |-> NoHandle]
    /\ op = [p \in Coders |-> ""]
    /\ wpath = [p \in Coders |-> <<>>]
    /\ wdata = [p \in Coders |-> <<>>]
    /\ fn = [p \in Coders |-> ""]
    /\ part = [p \in Coders |-> <<>>]
    /\ matches = [p \in Coders |-> {}]
    /\ todo = [p \in Coders |-> <<>>]
    /\ cmd = [p \in Coders |-> NoCmd]
    /\ out = [p \in Coders |-> NoResult]
    /\ calls = [p \in Coders |-> 0]
    /\ ids = [p \in Coders |-> <<>>]
    /\ locked = [p \in Coders |-> <<>>]
    /\ listed = [p \in Coders |-> <<>>]
    /\ files = <<>>
    /\ locks = {}
    /\ hist = <<>>
    /\ gate = <<>>

\* Marshal(t) of the process's ticket.
CodecMarshal(p) ==
    /\ pc[p] = "idle"
    /\ wdata' = [wdata EXCEPT ![p] = MarshalText(tk[p])]
    /\ pc' = [pc EXCEPT ![p] = "marshalled"]
    /\ UNCHANGED <<files, tmp, wpath, hist, locks, stk, lpath, lshared, err, aid,
                   tk, lt, op, fn, calls, cmdVars>>

\* Parse(data) of what Marshal gave.
CodecParse(p) ==
    /\ pc[p] = "marshalled"
    /\ LET r == ParseText(wdata[p])
       IN  /\ err' = [err EXCEPT ![p] = r.err]
           /\ listed' = [listed EXCEPT ![p] = <<r.t>>]
    /\ pc' = [pc EXCEPT ![p] = "parsed"]
    /\ UNCHANGED <<writeVars, locks, stk, lpath, lshared, aid, tk, lt, op, fn,
                   calls, part, matches, todo, cmd, out, gate, ids, locked>>

NextCodec == \E p \in Coders : CodecMarshal(p) \/ CodecParse(p)

SpecCodec == InitCodec /\ [][NextCodec]_vars

\* C19 as claimed: Parse of what Marshal gives for a Ticket succeeds and
\* gives a Ticket equal to it in id, status, title, description, design,
\* acceptance criteria, tests and notes, whatever the text of its sections.
C19_RoundTrip ==
    \A p \in Coders :
        pc[p] = "parsed" => (err[p] = NoErr /\ listed[p] = <<tk[p]>>)

(***************************************************************************)
(* kt create (internal/cmd/create.go, internal/store/id.go).               *)
(***************************************************************************)
\* GenerateID: the prefix of the project and the first 4 hex digits of the
\* SHA-256 of the pid and the time in nanoseconds: some id of the ids of
\* that form, here GenIds.  The store is not looked at.
GenIds == {RecId, OtherId}

GenerateID == GenIds

\* kt create <title>: the ticket of a generated id, then Store.Save(t).
runCreate(p) ==
    /\ CanCall(p)
    /\ Begin(p, "create")
    /\ \E id \in GenerateID, prio \in 1..2 :
          CallSave(p, [NewTicket(id, StatusOpen, "", FALSE) EXCEPT !.Priority = prio],
                   <<"runCreate_saved">>)
    /\ UNCHANGED <<writeVars, locks, aid, lt, fn, cmdVars>>

\* runCreate: Store.Save has returned; the id or the error is printed and
\* the process exits.
CreateSaved(p) ==
    /\ pc[p] = "runCreate_saved"
    /\ Exit(p)
    /\ stk' = [stk EXCEPT ![p] = <<>>]
    /\ UNCHANGED <<writeVars, locks, lpath, lshared, aid, fn, calls, todo, gate,
                   batchVars>>

(***************************************************************************)
(* The create specification: NumCreators processes that each run kt create *)
(* or Store.Update of RecId, on a store that holds RecId or nothing.       *)
(***************************************************************************)
NumCreators == 2

Creators == 1..NumCreators

InitCreate ==
    /\ InitProcs(Creators)
    /\ \E stored \in BOOLEAN :
          files = [i \in GenIds |->
                     IF stored /\ i = RecId
                     THEN FileOf(NewTicket(i, StatusOpen, "", FALSE))
                     ELSE NoFile]
    /\ hist = <<>>
    /\ locks = {}
    /\ gate = <<>>

NextCreate ==
    \E p \in Creators :
        \/ runCreate(p)
        \/ CreateSaved(p)
        \/ StoreUpdateCall(p)
        \/ GetForUpdateLocked(p)
        \/ GetForUpdateUnlock(p)
        \/ UpdateFn(p)
        \/ UpdateRelease(p)
        \/ SaveLocked(p)
        \/ SaveRelease(p)
        \/ AcquireTry(p)
        \/ AcquireRetry(p)
        \/ AcquireTimeout(p)
        \/ AwCreate(p)
        \/ AwWrite(p)
        \/ AwClose(p)
        \/ AwRename(p)
        \/ AwFail(p)

SpecCreate == InitCreate /\ [][NextCreate]_vars

\* C20 as claimed: the write of a create is committed only to an id under
\* which no record is stored, and every stored record is filed under the id
\* it holds.
C20_IdsUnique ==
    /\ [][\A p \in Creators :
             (op[p] = "create" /\ pc[p] = "aw_rename" /\ files' # files)
                => ~files[wpath[p]].exists]_vars
    /\ [](\A id \in Stored(files) : ParseFile(files, id).t.ID = id)

(***************************************************************************)
(* kt wait (internal/cmd: runWaitWithClock).                               *)
(***************************************************************************)
\* runWaitWithClock: the test that ends the wait with printWaitResult.
WaitDoneAlways(t) == TRUE

WaitDone(t) == t.Status = StatusClosed

\* runWaitWithClock returns e: the command is over, its result is kept.
WaitReturn(p, e) ==
    /\ pc' = [pc EXCEPT ![p] = "idle"]
    /\ err' = [err EXCEPT ![p] = e]

\* runWaitWithClock: Store.Resolve has returned.  Its error ends the
\* command, a closed ticket ends it with success, and otherwise the loop
\* starts with the resolved id.
WaitResolved(p) ==
    /\ pc[p] = "runWait_resolved"
    /\ IF err[p] # NoErr
       THEN /\ WaitReturn(p, err[p])
            /\ UNCHANGED ids
       ELSE /\ ids' = [ids EXCEPT ![p] = <<tk[p].ID>>]
            /\ IF WaitDone(tk[p])
               THEN WaitReturn(p, NoErr)
               ELSE /\ pc' = [pc EXCEPT ![p] = "runWait_select"]
                    /\ UNCHANGED err
    /\ UNCHANGED <<writeVars, locks, stk, lpath, lshared, aid, tk, lt, op, fn,
                   calls, part, matches, todo, cmd, out, gate, locked, listed>>

\* runWaitWithClock: the select of the loop: the context is done, the
\* heartbeat ticks (a line on stderr), or the poll ticks and Store.Get of
\* the resolved id starts.
WaitSelect(p) ==
    /\ pc[p] = "runWait_select"
    /\ \E ev \in {"done", "heartbeat", "poll"} :
          IF ev = "done"
          THEN /\ WaitReturn(p, ErrCanceled)
               /\ UNCHANGED <<stk, aid, lpath, lshared>>
          ELSE IF ev = "heartbeat"
          THEN UNCHANGED <<pc, err, stk, aid, lpath, lshared>>
          ELSE /\ CallGet(p, ids[p][1], <<"runWait_polled">>)
               /\ UNCHANGED err
    /\ UNCHANGED <<writeVars, locks, tk, lt, op, fn, calls, cmdVars>>

\* runWaitWithClock: Store.Get has returned.  Its error ends the command, a
\* closed ticket ends it with success, and otherwise the loop goes on.
WaitPolled(p) ==
    /\ pc[p] = "runWait_polled"
    /\ IF err[p] # NoErr
       THEN WaitReturn(p, Wrap("read ticket", err[p]))
       ELSE IF WaitDone(tk[p])
            THEN WaitReturn(p, NoErr)
            ELSE /\ pc' = [pc EXCEPT ![p] = "runWait_select"]
                 /\ UNCHANGED err
    /\ UNCHANGED <<writeVars, locks, stk, lpath, lshared, aid, tk, lt, op, fn,
                   calls, cmdVars>>

(***************************************************************************)
(* The wait specification: NumWaitClients processes that each run one of   *)
(* kt wait t1, kt close t1 and kt reopen t1 on the record RecId, which has *)
(* no tests section and is in progress or closed at the start.             *)
(***************************************************************************)
NumWaitClients == 2

WaitClients == 1..NumWaitClients

InitWait ==
    /\ InitProcs(WaitClients)
    /\ \E st \in {StatusInProgress, StatusClosed} :
          /\ files = [i \in StoreIds |-> FileOf(NewTicket(i, st, "", FALSE))]
          /\ hist = [i \in StoreIds |-> {NewTicket(i, st, "", FALSE)}]
    /\ locks = {}
    /\ gate = <<>>

\* kt wait t1: runWaitWithClock, from Store.Resolve on.
runWait(p) ==
    /\ CanCall(p)
    /\ Begin(p, "wait")
    /\ CallResolve(p, CmdPartial, <<"runWait_resolved">>)
    /\ UNCHANGED <<writeVars, locks, tk, lt, fn, matches, todo, cmd, out, gate,
                   batchVars>>

\* kt close t1 or kt reopen t1, once.
WaitOther(p) ==
    /\ CanCall(p)
    /\ (runClose(p) \/ runReopen(p))

NextWait ==
    \E p \in WaitClients :
        \/ runWait(p)
        \/ WaitOther(p)
        \/ WaitResolved(p)
        \/ WaitSelect(p)
        \/ WaitPolled(p)
        \/ SetStatusLoop(p)
        \/ SetStatusResolved(p)
        \/ SetStatusSaved(p)
        \/ ResolveForUpdateResolved(p)
        \/ ResolveExact(p)
        \/ ResolveGlob(p)
        \/ ResolveUnlock(p)
        \/ GetLocked(p)
        \/ GetRelease(p)
        \/ GetForUpdateLocked(p)
        \/ SaveAndReleaseEntry(p)
        \/ SaveAndReleaseRelease(p)
        \/ AcquireTry(p)
        \/ AcquireRetry(p)
        \/ AcquireTimeout(p)
        \/ AwCreate(p)
        \/ AwWrite(p)
        \/ AwClose(p)
        \/ AwRename(p)

SpecWait == InitWait /\ [][NextWait]_vars

\* C21: a kt wait that has returned success holds a ticket it read from the
\* store whose status is closed; and a wait whose read found another status
\* goes back to its select, which it leaves only for a poll or with the
\* error of the cancelled context.
C21_WaitUntilClosed ==
    /\ [](\A p \in WaitClients :
            (pc[p] = "idle" /\ op[p] = "wait" /\ err[p] = NoErr) =>
               /\ tk[p].Status = StatusClosed
               /\ tk[p] \in hist[tk[p].ID])
    /\ [][\A p \in WaitClients :
             /\ (pc[p] \in {"runWait_resolved", "runWait_polled"}
                   /\ err[p] = NoErr /\ tk[p].Status # StatusClosed
                   /\ pc'[p] # pc[p])
                => pc'[p] = "runWait_select"
             /\ (pc[p] = "runWait_select" /\ pc'[p] # pc[p])
                => \/ pc'[p] = "acquire" /\ lpath'[p] = lockPath(ids[p][1])
                   \/ pc'[p] = "idle" /\ err'[p] = ErrCanceled]_vars

\* A wait whose resolve found the record in progress is back from a poll
\* that read the record as closed, and is about to return success.
C21_Witness ==
    \E p \in WaitClients :
        /\ pc[p] = "runWait_polled" /\ op[p] = "wait" /\ err[p] = NoErr
        /\ tk[p].Status = StatusClosed
        /\ NewTicket(RecId, StatusInProgress, "", FALSE) \in hist[RecId]

(***************************************************************************)
(* kt ready and kt blocked (internal/cmd: runReady, runBlocked,            *)
(* hasUnresolvedDeps, allDepsResolved).                                    *)
(***************************************************************************)
\* hasUnresolvedDeps: the dep whose Store.Get gave the error e and the
\* ticket t is resolved: it was found and is closed.
DepResolvedMissing(e, t) == e # NoErr \/ t.Status = StatusClosed

DepResolved(e, t) == e = NoErr /\ t.Status = StatusClosed

\* runReady / runBlocked: the ticket at the head of the list is done: it is
\* appended to the result when the command is ready and its deps are
\* resolved, or the command is blocked and they are not.
DepsVerdict(p, resolved) ==
    /\ out' = [out EXCEPT ![p] =
                 IF (cmd[p].name = "ready") = resolved
                 THEN AddUpdated(@, Head(listed[p]).ID) ELSE @]
    /\ listed' = [listed EXCEPT ![p] = Tail(@)]
    /\ todo' = [todo EXCEPT ![p] = <<>>]
    /\ pc' = [pc EXCEPT ![p] = "deps_ticket"]

\* runReady / runBlocked: Store.List has returned: its error ends the
\* command, else the loop over the tickets starts.
DepsListed(p) ==
    /\ pc[p] = "deps_listed"
    /\ pc' = [pc EXCEPT ![p] = IF err[p] # NoErr THEN "idle" ELSE "deps_ticket"]
    /\ UNCHANGED <<writeVars, locks, stk, lpath, lshared, err, aid, tk, lt, op,
                   fn, calls, cmdVars>>

\* runReady / runBlocked: the next ticket of the list.  A closed ticket is
\* passed over; a ticket without deps has none unresolved; else Store.Get of
\* its first dep starts.  After the last ticket the result is printed and
\* the command returns nil.
DepsTicket(p) ==
    /\ pc[p] = "deps_ticket"
    /\ IF listed[p] = <<>>
       THEN /\ pc' = [pc EXCEPT ![p] = "idle"]
            /\ err' = [err EXCEPT ![p] = NoErr]
            /\ UNCHANGED <<out, listed, todo, stk, aid, lpath, lshared>>
       ELSE IF Head(listed[p]).Status = StatusClosed
       THEN /\ listed' = [listed EXCEPT ![p] = Tail(@)]
            /\ UNCHANGED <<pc, err, out, todo, stk, aid, lpath, lshared>>
       ELSE IF Head(listed[p]).Deps = <<>>
       THEN /\ DepsVerdict(p, TRUE)
            /\ UNCHANGED <<err, stk, aid, lpath, lshared>>
       ELSE /\ todo' = [todo EXCEPT ![p] = Head(listed[p]).Deps]
            /\ CallGet(p, Head(Head(listed[p]).Deps), <<"deps_got">>)
            /\ UNCHANGED <<err, out, listed>>
    /\ UNCHANGED <<writeVars, locks, tk, lt, op, fn, calls, part, matches,
                   cmd, gate, ids, locked>>

\* hasUnresolvedDeps: Store.Get of a dep has returned: an unresolved dep
\* ends the loop with true; else the next dep is read, and after the last
\* the result is false.
DepsGot(p) ==
    /\ pc[p] = "deps_got"
    /\ IF ~DepResolved(err[p], tk[p])
       THEN /\ DepsVerdict(p, FALSE)
            /\ UNCHANGED <<stk, aid, lpath, lshared>>
       ELSE IF Tail(todo[p]) = <<>>
       THEN /\ DepsVerdict(p, TRUE)
            /\ UNCHANGED <<stk, aid, lpath, lshared>>
       ELSE /\ todo' = [todo EXCEPT ![p] = Tail(@)]
            /\ CallGet(p, todo[p][2], <<"deps_got">>)
            /\ UNCHANGED <<out, listed>>
    /\ UNCHANGED <<writeVars, locks, err, tk, lt, op, fn, calls, part, matches,
                   cmd, gate, ids, locked>>

(***************************************************************************)
(* The deps specification: one kt ready or kt blocked on a store at rest   *)
(* in which each record of ListIds is absent, open or closed, and the      *)
(* first two have any of the lists of DepLists as their deps.              *)
(***************************************************************************)
DepClients == {1}

\* An id no record has.
MissingId == <<"k", "1">>

DepLists ==
    {<<>>, <<<<"k", "b">>>>, <<<<"k", "c">>>>, <<<<"k", "b">>, <<"k", "c">>>>,
     <<<<"k", "c">>, <<"k", "b">>>>, <<MissingId>>, <<<<"k", "c">>, MissingId>>}

InitDeps ==
    /\ InitProcs(DepClients)
    /\ \E st \in [ListIds -> {"", StatusOpen, StatusClosed}],
          da \in DepLists, db \in {<<>>, <<<<"k", "c">>>>} :
          files = [i \in ListIds |->
                     IF st[i] = "" THEN NoFile
                     ELSE FileOf([NewTicket(i, st[i], "", FALSE) EXCEPT
                                    !.Created = CreatedAt(i),
                                    !.Deps = IF i = <<"k", "a">> THEN da
                                             ELSE IF i = <<"k", "b">> THEN db
                                             ELSE <<>>])]
    /\ locks = {}
    /\ hist = <<>>
    /\ gate = <<>>

\* kt ready / kt blocked: from Store.List on.
runReady(p) ==
    /\ CanCall(p)
    /\ \E name \in {"ready", "blocked"} :
          /\ Begin(p, name)
          /\ cmd' = [cmd EXCEPT ![p] = [NoCmd EXCEPT !.name = name]]
    /\ CallList(p, <<"deps_listed">>)
    /\ UNCHANGED <<writeVars, locks, aid, tk, lt, fn, part, matches, todo, out,
                   gate, batchVars>>

NextDeps ==
    \E p \in DepClients :
        \/ runReady(p)
        \/ ListGlob(p)
        \/ ListParse(p)
        \/ ListRelease(p)
        \/ DepsListed(p)
        \/ DepsTicket(p)
        \/ DepsGot(p)
        \/ GetLocked(p)
        \/ GetRelease(p)
        \/ AcquireTry(p)

SpecDeps == InitDeps /\ [][NextDeps]_vars

\* Every id of the deps of the record of id names a stored record that is
\* closed.
DepsClosed(id) ==
    LET t == ParseFile(files, id).t
    IN  \A n \in 1..Len(t.Deps) :
           /\ ParseFile(files, t.Deps[n]).err = NoErr
           /\ ParseFile(files, t.Deps[n]).t.Status = StatusClosed

\* The ids of the stored records that are not closed.
NotClosed == {id \in Stored(files) : ParseFile(files, id).t.Status # StatusClosed}

\* C22: over one store state, kt ready lists exactly the records that are
\* not closed and whose deps all name closed records, and kt blocked lists
\* exactly the records that are not closed and have a dep that is missing
\* or not closed, each once; so a record that is not closed is in one list
\* and not in the other, and a closed record is in neither.
C22_ReadyOrBlocked ==
    \A p \in DepClients :
        (pc[p] = "idle" /\ op[p] \in {"ready", "blocked"}) =>
            LET L == out[p].Updated
            IN  /\ err[p] = NoErr
                /\ Len(L) = Cardinality({L[i] : i \in 1..Len(L)})
                /\ {L[i] : i \in 1..Len(L)} =
                      {id \in NotClosed : (op[p] = "ready") = DepsClosed(id)}

\* kt blocked has listed the record ka, which is open and whose deps are a
\* closed record and an id that no record has, and not the open record kb
\* whose only dep is closed.
C22_Witness ==
    \E p \in DepClients :
        /\ pc[p] = "idle" /\ op[p] = "blocked"
        /\ out[p].Updated = <<<<"k", "a">>>>
        /\ ParseFile(files, <<"k", "a">>).t.Deps = <<<<"k", "c">>, MissingId>>
        /\ ParseFile(files, <<"k", "b">>).err = NoErr
        /\ ParseFile(files, <<"k", "b">>).t.Status = StatusOpen
        /\ ParseFile(files, <<"k", "b">>).t.Deps = <<<<"k", "c">>>>
        /\ ParseFile(files, <<"k", "c">>).t.Status = StatusClosed

(***************************************************************************)
(* The locks of the link commands around their writes.                     *)
(***************************************************************************)
\* p holds the lock of the record id exclusively.
HoldsExclusive(p, id) ==
    \E l \in locks : l.owner = p /\ l.path = lockPath(id) /\ ~l.shared

\* p is in atomicWrite.
Writing(p) == pc[p] \in {"aw_create", "aw_write", "aw_close", "aw_rename"}

\* C23 as claimed: while kt link add or kt link rm writes any of its
\* records, it holds the exclusive lock of every record it involves: all
\* were locked before the first write and none is released before the last.
C23_LocksAroundSaves ==
    \A p \in Linkers :
        (op[p] \in {"link add", "link rm"} /\ Writing(p)) =>
            \A i \in 1..Len(ids[p]) : HoldsExclusive(p, ids[p][i])

(***************************************************************************)
(* Writes and the per-record lock.                                         *)
(***************************************************************************)
\* The step is one of process p: its place or its work list changes.
StepOf(p) == pc'[p] # pc[p] \/ ids'[p] # ids[p]

\* C24 as claimed: in every step that changes or removes the file of a
\* record, the process that takes the step holds the exclusive lock of that
\* record.
C24_WritesUnderLock ==
    [][\A id \in PurgeIds :
          files'[id] # files[id] =>
             \E p \in PurgeClients : StepOf(p) /\ HoldsExclusive(p, id)]_vars

(***************************************************************************)
(* Reads and the per-record lock.                                          *)
(***************************************************************************)
\* C25 as claimed: a process that is about to read a record file with
\* ParseFile, in Get (which Resolve reads with), in GetForUpdate or in
\* List, holds the lock of that record, shared or exclusive.
C25_ReadsUnderLock ==
    \A p \in PurgeClients :
        /\ (pc[p] = "Get_locked" /\ err[p] = NoErr) => Holds(p, lockPath(aid[p]))
        /\ (pc[p] = "GetForUpdate_locked" /\ err[p] = NoErr)
              => Holds(p, lockPath(aid[p]))
        /\ (pc[p] = "List_parse" /\ todo[p] # <<>>)
              => Holds(p, lockPath(Head(todo[p])))

\* C26 as claimed: in List and in Resolve the store-wide lock is released
\* before any record file is opened and parsed: no process is about to
\* parse a record file (in List, or in the Get that Resolve reads with)
\* while it holds the store-wide lock.
C26_StoreLockOnlyForGlob ==
    \A p \in PurgeClients :
        /\ (pc[p] = "List_parse" /\ todo[p] # <<>>) => ~Holds(p, storeLockPath)
        /\ pc[p] \in {"Get_locked", "GetForUpdate_locked"} => ~Holds(p, storeLockPath)

(***************************************************************************)
(* cmd: kt dep add and kt dep rm.                                          *)
(***************************************************************************)
ErrAlreadyDepends == <<"already depends on">>
ErrNotDepends == <<"does not depend on">>

\* runDepAdd, runDepRm return e: the command is over, its result is kept.
DepReturn(p, e) ==
    /\ pc' = [pc EXCEPT ![p] = "idle"]
    /\ err' = [err EXCEPT ![p] = e]
    /\ tk' = [tk EXCEPT ![p] = NoTicket]
    /\ part' = [part EXCEPT ![p] = <<>>]
    /\ matches' = [matches EXCEPT ![p] = {}]
    /\ listed' = [listed EXCEPT ![p] = <<>>]
    /\ UNCHANGED <<lt, op, cmd, out>>

\* runDepAdd, runDepRm: Store.Resolve(args[0]) has returned; its error
\* ends the command, else t is kept and Store.Resolve(args[1]) starts.
DepResolvedT(p) ==
    /\ pc[p] = "runDep_t"
    /\ IF err[p] # NoErr
       THEN /\ DepReturn(p, err[p])
            /\ UNCHANGED <<stk, aid, lpath, lshared>>
       ELSE /\ listed' = [listed EXCEPT ![p] = <<tk[p]>>]
            /\ CallResolve(p, ids[p][2], <<"runDep_dep">>)
            /\ UNCHANGED <<err, tk, lt, op, matches, cmd, out>>
    /\ UNCHANGED <<writeVars, locks, fn, calls, todo, gate, ids, locked>>

\* Deps without the id d, in order.
RECURSIVE RemoveDep(_, _)
RemoveDep(deps, d) ==
    IF deps = <<>> THEN <<>>
    ELSE IF Head(deps) = d THEN RemoveDep(Tail(deps), d)
    ELSE <<Head(deps)>> \o RemoveDep(Tail(deps), d)

\* runDepAdd, runDepRm: Store.Resolve(args[1]) has returned; its error ends
\* the command, and so does a dependency that is already there (add) or not
\* there (rm); else t.Deps is changed and Store.Save(t) starts.
DepResolvedDep(p) ==
    /\ pc[p] = "runDep_dep"
    /\ LET t == listed[p][1]
           has == err[p] = NoErr /\ InSeq(t.Deps, tk[p].ID)
       IN  IF \/ err[p] # NoErr
              \/ (cmd[p].name = "dep add" /\ has)
              \/ (cmd[p].name = "dep rm" /\ ~has)
           THEN /\ DepReturn(p, IF err[p] # NoErr THEN err[p]
                                ELSE IF has THEN ErrAlreadyDepends
                                ELSE ErrNotDepends)
                /\ UNCHANGED <<stk, lpath, lshared>>
           ELSE /\ CallSave(p, [t EXCEPT !.Deps =
                                   IF cmd[p].name = "dep add"
                                   THEN Append(@, tk[p].ID)
                                   ELSE RemoveDep(@, tk[p].ID)],
                            <<"runDep_saved">>)
                /\ UNCHANGED <<err, lt, op, part, matches, cmd, out, listed>>
    /\ UNCHANGED <<writeVars, locks, aid, fn, calls, todo, gate, ids, locked>>

\* runDepAdd, runDepRm: Store.Save has returned; the command ends with its
\* error or prints the new dependencies.
DepSaved(p) ==
    /\ pc[p] = "runDep_saved"
    /\ DepReturn(p, err[p])
    /\ UNCHANGED <<writeVars, locks, stk, lpath, lshared, aid, fn, calls, todo,
                   gate, ids, locked>>

(***************************************************************************)
(* The dep specification: NumDepWriters processes that each run one of     *)
(* kt dep add, kt dep rm (of OtherId, to t1 or kt1) and kt close t1 on the  *)
(* open record RecId, which depends on OtherId or on nothing at the start. *)
(***************************************************************************)
NumDepWriters == 2

DepWriters == 1..NumDepWriters

\* args[0]: a part of the record's id, or the whole of it.
DepTargets == {CmdPartial, RecId}

DepRecord(deps) == [NewTicket(RecId, StatusOpen, "", FALSE) EXCEPT !.Deps = deps]

InitDep ==
    /\ InitProcs(DepWriters)
    /\ \E deps \in {<<>>, <<OtherId>>} :
          /\ files = [i \in PurgeIds |->
                        IF i = RecId THEN FileOf(DepRecord(deps))
                        ELSE FileOf(NewTicket(i, StatusOpen, "", FALSE))]
          /\ hist = [i \in PurgeIds |->
                       IF i = RecId THEN {DepRecord(deps)}
                       ELSE {NewTicket(i, StatusOpen, "", FALSE)}]
    /\ locks = {}
    /\ gate = <<>>

\* kt dep add <id> kt2: runDepAdd, from Store.Resolve(args[0]) on.
runDepAdd(p) ==
    /\ CanCall(p)
    /\ Begin(p, "dep add")
    /\ cmd' = [cmd EXCEPT ![p] = [NoCmd EXCEPT !.name = "dep add"]]
    /\ \E a \in DepTargets :
          /\ ids' = [ids EXCEPT ![p] = <<a, OtherId>>]
          /\ CallResolve(p, a, <<"runDep_t">>)
    /\ UNCHANGED <<writeVars, locks, tk, lt, fn, matches, todo, out, gate,
                   locked, listed>>

\* kt dep rm <id> kt2: runDepRm, from Store.Resolve(args[0]) on.
runDepRm(p) ==
    /\ CanCall(p)
    /\ Begin(p, "dep rm")
    /\ cmd' = [cmd EXCEPT ![p] = [NoCmd EXCEPT !.name = "dep rm"]]
    /\ \E a \in DepTargets :
          /\ ids' = [ids EXCEPT ![p] = <<a, OtherId>>]
          /\ CallResolve(p, a, <<"runDep_t">>)
    /\ UNCHANGED <<writeVars, locks, tk, lt, fn, matches, todo, out, gate,
                   locked, listed>>

\* kt close t1, once.
DepOther(p) ==
    /\ CanCall(p)
    /\ runClose(p)

NextDep ==
    \E p \in DepWriters :
        \/ runDepAdd(p)
        \/ runDepRm(p)
        \/ DepOther(p)
        \/ DepResolvedT(p)
        \/ DepResolvedDep(p)
        \/ DepSaved(p)
        \/ SetStatusLoop(p)
        \/ SetStatusResolved(p)
        \/ SetStatusSaved(p)
        \/ ResolveForUpdateResolved(p)
        \/ ResolveExact(p)
        \/ ResolveGlob(p)
        \/ ResolveUnlock(p)
        \/ GetLocked(p)
        \/ GetRelease(p)
        \/ GetForUpdateLocked(p)
        \/ SaveLocked(p)
        \/ SaveRelease(p)
        \/ SaveAndReleaseEntry(p)
        \/ SaveAndReleaseRelease(p)
        \/ AcquireTry(p)
        \/ AcquireRetry(p)
        \/ AcquireTimeout(p)
        \/ AwCreate(p)
        \/ AwWrite(p)
        \/ AwClose(p)
        \/ AwRename(p)

SpecDep == InitDep /\ [][NextDep]_vars

\* Every command has ended.
DepAllDone == \A p \in DepWriters : pc[p] = "idle" /\ calls[p] = 1

\* The dep command of p has ended with success.
DepDone(p, name) == pc[p] = "idle" /\ cmd[p].name = name /\ err[p] = NoErr

\* kt close has committed its write of the record.
CloseDone == \E t \in hist[RecId] : t.Status = StatusClosed

\* C27 as claimed: a command that reads a record and writes it back holds
\* the record's exclusive lock from the read to the write, so when a close
\* and a dep add (or dep rm) ran concurrently on one record and both
\* succeeded, both show in the stored record: it is closed, and it has (or
\* has lost) the dependency.
C27_BothTakeEffect ==
    \A p \in DepWriters :
        (DepAllDone /\ CloseDone) =>
            LET t == ParseFile(files, RecId).t
            IN  /\ DepDone(p, "dep add") =>
                      (t.Status = StatusClosed /\ InSeq(t.Deps, OtherId))
                /\ DepDone(p, "dep rm") =>
                      (t.Status = StatusClosed /\ ~InSeq(t.Deps, OtherId))

(***************************************************************************)
(* ResolveForUpdate and the writes between its two reads.                  *)
(***************************************************************************)
\* ResolveForUpdate has just returned a handle to p's command.
Resolved(p) == pc[p] = "setStatusMultiple_resolved" /\ err[p] = NoErr

\* C28: the record in the handle ResolveForUpdate returns is the record as
\* stored when the exclusive lock was acquired (and so, the lock being held,
\* the stored record), not the copy read during the resolution: a write
\* committed between the two is in the handle.
C28_HandleIsFresh ==
    \A p \in DepWriters :
        Resolved(p) => /\ HoldsExclusive(p, lt[p].id)
                       /\ lt[p].Ticket = ParseFile(files, lt[p].id).t

\* ResolveForUpdate returned a handle whose record differs from the copy
\* Resolve had read: a dep command committed its write in between.
C28_Witness ==
    \E p \in DepWriters :
        /\ Resolved(p)
        /\ tk[p] # NoTicket
        /\ tk[p] # lt[p].Ticket
        /\ lt[p].Ticket = ParseFile(files, lt[p].id).t

(***************************************************************************)
(* Per-record locks held at one time.                                      *)
(***************************************************************************)
\* The per-record locks p holds.
RecordLocks(p) == {l \in locks : l.owner = p /\ l.path # storeLockPath}

\* C29: a batch command (start, close, reopen, pass over several ids) holds
\* at most one per-record lock at a time: the lock of one id is released
\* before the lock of the next is acquired.
C29_OneRecordLock ==
    \A p \in BatchClients : Cardinality(RecordLocks(p)) <= 1

\* A batch command holds the lock of a later id after it has finished with
\* an earlier one.
C29_Witness ==
    \E p \in BatchClients :
        /\ out[p].Updated # <<>>
        /\ RecordLocks(p) # {}
        /\ \A l \in RecordLocks(p) :
              ~l.shared /\ l.path # lockPath(out[p].Updated[1])

(***************************************************************************)
(* Errors of the store operations.                                         *)
(***************************************************************************)
\* p takes a step.
Steps(p) == pc'[p] # pc[p] \/ stk'[p] # stk[p]

\* p's step returns the error it has met to the caller of the operation, as
\* it is or with the operation's prefix.
Surfaces(p) ==
    /\ pc'[p] = Head(stk[p])
    /\ stk'[p] = Tail(stk[p])
    /\ err'[p] \in {err[p], Wrap("acquire lock", err[p]),
                   Wrap("acquire store lock", err[p])}

\* The places where Get, Resolve, Save, GetForUpdate and ResolveForUpdate
\* have met an error: a lock that was not acquired, a file that was not
\* read or written, a resolution that failed.  Resolve's exact-match Get
\* that finds no file is the documented way into the search and is left out.
MetError(p) ==
    /\ err[p] # NoErr
    /\ \/ pc[p] \in {"Get_locked", "Get_release", "Resolve_glob", "Save_locked",
                     "Save_release", "GetForUpdate_locked",
                     "ResolveForUpdate_resolved"}
       \/ pc[p] = "Resolve_exact" /\ err[p] # ErrNotExist

\* C30 as claimed: every error met inside Get, Resolve, Save, GetForUpdate
\* or ResolveForUpdate (not found, format error, lock timeout, I/O error)
\* is returned to the caller: the step that follows the error returns it.
C30_ErrorsSurface ==
    [][\A p \in DepWriters : (MetError(p) /\ Steps(p)) => Surfaces(p)]_vars

(***************************************************************************)
(* filelock: AcquireContext and AcquireSharedContext with a context that   *)
(* its owner can cancel.                                                   *)
(***************************************************************************)
\* ctx.Err(): Canceled once the context was cancelled, DeadlineExceeded
\* when its deadline passed first.
CtxErrDeadline(canceled) == <<"context deadline exceeded">>

CtxErr(canceled) ==
    IF canceled THEN ErrCanceled ELSE <<"context deadline exceeded">>

\* filelock.AcquireContext(ctx, path) / AcquireSharedContext(ctx, path) by
\* an idle caller; op and aid keep the call and its path for the caller.
AcquireContextCall(p) ==
    /\ pc[p] = "idle"
    /\ \E path \in LockPaths, shared \in BOOLEAN :
          /\ ~Holds(p, path)
          /\ CallAcquire(p, path, shared, "idle")
          /\ op' = [op EXCEPT ![p] = IF shared THEN "AcquireSharedContext"
                                     ELSE "AcquireContext"]
          /\ aid' = [aid EXCEPT ![p] = path]
    /\ UNCHANGED <<locks, err, calls>>
    /\ UNCHANGED <<writeVars, tk, lt, fn, cmdVars>>

\* The owner of the context cancels it while acquire waits in
\* TryLockContext / TryRLockContext: ctx.Done() is closed.
CtxCancel(p) ==
    /\ pc[p] = "acquire_wait"
    /\ op[p] \in {"AcquireContext", "AcquireSharedContext"}
    /\ pc' = [pc EXCEPT ![p] = "acquire_canceled"]
    /\ UNCHANGED <<locks, stk, err, lpath, lshared, op, calls>>
    /\ UNCHANGED storeVars

\* acquire: the wait ends on ctx.Done(); TryLockContext returns ctx.Err(),
\* which acquire wraps, and nothing is held.
AcquireCanceled(p) ==
    /\ pc[p] = "acquire_canceled"
    /\ Return(p, Wrap("acquire lock", CtxErr(TRUE)))
    /\ AcquireLocalsEnd(p)
    /\ UNCHANGED <<locks, op, calls>>
    /\ UNCHANGED storeVars

NextCtx ==
    \E p \in Holders :
        \/ LockCall(p)
        \/ AcquireContextCall(p)
        \/ AcquireTry(p)
        \/ AcquireRetry(p)
        \/ AcquireTimeout(p)
        \/ CtxCancel(p)
        \/ AcquireCanceled(p)
        \/ LockRelease(p)

SpecCtx == InitLock /\ [][NextCtx]_vars

\* C31: when the context given to AcquireContext or AcquireSharedContext
\* is cancelled while the lock is waited for, the next step of the call is
\* its return (no further attempt, no wait for the timeout), with nothing
\* taken and an error that is not the error of a timeout.
C31_CancelDistinct ==
    [][\A p \in Holders :
          (pc[p] = "acquire_canceled" /\ pc'[p] # pc[p]) =>
              /\ pc'[p] = "idle"
              /\ locks' = locks
              /\ err'[p] # NoErr
              /\ err'[p] # ErrDeadline]_vars

\* A call of AcquireContext has returned the cancellation error while
\* another caller still holds the lock it waited for.
C31_Witness ==
    \E p \in Holders : \E q \in Holders :
        /\ p # q
        /\ pc[p] = "idle"
        /\ op[p] \in {"AcquireContext", "AcquireSharedContext"}
        /\ err[p] = Wrap("acquire lock", ErrCanceled)
        /\ Holds(q, aid[p])
        /\ ~Holds(p, aid[p])

(***************************************************************************)
(* Purge that is refused or declined.                                      *)
(***************************************************************************)
\* The step is one of the command of p.
PurgeStep(p) ==
    \/ pc'[p] # pc[p] \/ stk'[p] # stk[p]
    \/ todo'[p] # todo[p] \/ ids'[p] # ids[p]

\* No ticket of all that is not closed refers to a closed ticket of all.
NoOpenReference(all) ==
    \A t \in Range(all) : \A c \in Range(all) :
        (t.Status # StatusClosed /\ c.Status = StatusClosed) =>
            /\ t.Parent # c.ID
            /\ ~InSeq(t.Deps, c.ID)
            /\ ~InSeq(t.Links, c.ID)

\* C32: a purge that is refused by the validation of references, refused
\* in JSON mode or declined at the prompt deletes no file: no step of kt
\* purge before the confirmed removal changes a file, and the removal is
\* only reached with references that pass the validation.
C32_RefusedPurgeDeletesNothing ==
    /\ [][\A p \in PurgeClients :
             (op[p] = "purge" /\ pc[p] # "runPurge_remove" /\ PurgeStep(p))
                 => files' = files]_vars
    /\ [](\A p \in PurgeClients :
             pc[p] \in {"runPurge_prompt", "runPurge_remove"}
                 => NoOpenReference(listed[p]))

\* A purge was refused, by the validation of references or in JSON mode,
\* and every file is still there, the closed record included.
C32_Witness ==
    \E p \in PurgeClients :
        /\ pc[p] = "idle" /\ op[p] = "purge"
        /\ err[p] \in {ErrCannotPurge, ErrRefuseJSON}
        /\ \A i \in PurgeIds : files[i].exists
        /\ ParseFile(files, RecId).t.Status = StatusClosed

(***************************************************************************)
(* internal/store/id.go: extractPrefix.                                    *)
(***************************************************************************)
IsSeparator(c) == c = "-" \/ c = "_"

\* strings.FieldsFunc(name, IsSeparator): the maximal runs of characters
\* that are not separators, in order; no empty field.
RECURSIVE FieldsFunc(_)
FieldsFunc(name) ==
    IF name = <<>> THEN <<>>
    ELSE IF IsSeparator(Head(name)) THEN FieldsFunc(Tail(name))
    ELSE LET rest == FieldsFunc(Tail(name))
         IN  IF Len(name) >= 2 /\ ~IsSeparator(name[2])
             THEN <<(<<Head(name)>> \o Head(rest))>> \o Tail(rest)
             ELSE <<(<<Head(name)>>)>> \o rest

\* The first byte of each part that has one, in order.
RECURSIVE FirstBytes(_)
FirstBytes(parts) ==
    IF parts = <<>> THEN <<>>
    ELSE (IF Head(parts) # <<>> THEN <<Head(parts)[1]>> ELSE <<>>)
         \o FirstBytes(Tail(parts))

\* extractPrefix(name).
extractPrefix(name) ==
    LET parts == FieldsFunc(name)
    IN  IF Len(parts) = 1
        THEN IF Len(name) > 3 THEN SubSeq(name, 1, 3) ELSE name
        ELSE FirstBytes(parts)

(***************************************************************************)
(* The prefix specification: extractPrefix applied to any name of at most  *)
(* MaxNameLen characters of NameChars.                                     *)
(***************************************************************************)
MaxNameLen == 4

NameChars == {"a", "b", "-", "_"}

Names == UNION {[1..n -> NameChars] : n \in 0..MaxNameLen}

Prefixers == {1}

InitPrefix ==
    /\ tmp = [p \in Prefixers |-> NoFile]
    /\ pc = [p \in Prefixers |-> "idle"]
    /\ stk = [p \in Prefixers |-> <<>>]
    /\ lpath = [p \in Prefixers |-> <<>>]
    /\ lshared = [p \in Prefixers |-> FALSE]
    /\ err = [p \in Prefixers |-> NoErr]
    /\ aid = [p \in Prefixers |-> <<>>]
    /\ tk = [p \in Prefixers |-> NoTicket]
    /\ lt = [p \in Prefixers |-> NoHandle]
    /\ op = [p \in Prefixers |-> ""]
    /\ wpath = [p \in Prefixers |-> <<>>]
    /\ wdata = [p \in Prefixers |-> <<>>]
    /\ fn = [p \in Prefixers |-> ""]
    /\ \E name \in Names : part = [p \in Prefixers |-> name]
    /\ matches = [p \in Prefixers |-> {}]
    /\ todo = [p \in Prefixers |-> <<>>]
    /\ cmd = [p \in Prefixers |-> NoCmd]
    /\ out = [p \in Prefixers |-> NoResult]
    /\ calls = [p \in Prefixers |-> 0]
    /\ ids = [p \in Prefixers |-> <<>>]
    /\ locked = [p \in Prefixers |-> <<>>]
    /\ listed = [p \in Prefixers |-> <<>>]
    /\ files = <<>>
    /\ locks = {}
    /\ hist = <<>>
    /\ gate = <<>>

\* extractPrefix(name) of the process's name.
PrefixCall(p) ==
    /\ pc[p] = "idle"
    /\ wdata' = [wdata EXCEPT ![p] = extractPrefix(part[p])]
    /\ pc' = [pc EXCEPT ![p] = "extracted"]
    /\ UNCHANGED <<files, tmp, wpath, hist, locks, stk, lpath, lshared, err, aid,
                   tk, lt, op, fn, calls, cmdVars>>

NextPrefix == \E p \in Prefixers : PrefixCall(p)

SpecPrefix == InitPrefix /\ [][NextPrefix]_vars

\* The segments of name that its separators delimit, the empty ones too.
RECURSIVE Segments(_)
Segments(name) ==
    IF \E i \in 1..Len(name) : IsSeparator(name[i])
    THEN LET i == CHOOSE k \in 1..Len(name) :
                     IsSeparator(name[k]) /\ \A j \in 1..(k - 1) : ~IsSeparator(name[j])
         IN  <<SubSeq(name, 1, i - 1)>> \o Segments(SubSeq(name, i + 1, Len(name)))
    ELSE <<name>>

\* C33 as claimed: for a name with a separator, extractPrefix gives the
\* first characters of its separator-delimited segments, one after the
\* other; for a name without one, its first three characters, or the name
\* when it is shorter.
C33_ExtractPrefix ==
    \A p \in Prefixers :
        pc[p] = "extracted" =>
            wdata[p] = IF \E i \in 1..Len(part[p]) : IsSeparator(part[p][i])
                       THEN FirstBytes(Segments(part[p]))
                       ELSE IF Len(part[p]) >= 3 THEN SubSeq(part[p], 1, 3)
                       ELSE part[p]

(***************************************************************************)
(* The status specification: one caller that runs up to MaxCmds of kt      *)
(* start, kt close, kt reopen, kt pass and kt status with any of the words *)
(* of StatusArgs on the record of the command specification.               *)
(***************************************************************************)
StatusArgs == {StatusOpen, StatusInProgress, StatusClosed, "done"}

StatusClients == {1}

\* kt start <id>: setStatusMultiple(args, StatusInProgress, false).
runStart(p) ==
    /\ CanRun(p)
    /\ BeginCmd(p, [name |-> "start", status |-> StatusInProgress,
                    validateClose |-> FALSE], <<CmdPartial>>)
    /\ pc' = [pc EXCEPT ![p] = "setStatusMultiple_loop"]
    /\ UNCHANGED <<writeVars, locks, stk, lpath, lshared, aid, fn, batchVars, gate>>

\* kt status <id> <word>.
runStatusArg(p) == \E word \in StatusArgs : runStatusWith(p, word)

NextStatus ==
    \E p \in StatusClients :
        \/ runStart(p)
        \/ runClose(p)
        \/ runReopen(p)
        \/ runPass(p)
        \/ runStatusArg(p)
        \/ SetStatusLoop(p)
        \/ SetStatusResolved(p)
        \/ SetStatusSaved(p)
        \/ RunPassLoop(p)
        \/ RunPassResolved(p)
        \/ RunPassSaved(p)
        \/ RunStatusResolved(p)
        \/ RunStatusSaved(p)
        \/ ResolveForUpdateResolved(p)
        \/ ResolveExact(p)
        \/ ResolveGlob(p)
        \/ ResolveUnlock(p)
        \/ GetLocked(p)
        \/ GetRelease(p)
        \/ GetForUpdateLocked(p)
        \/ SaveAndReleaseEntry(p)
        \/ SaveAndReleaseRelease(p)
        \/ AcquireTry(p)
        \/ AwCreate(p)
        \/ AwWrite(p)
        \/ AwClose(p)
        \/ AwRename(p)

SpecStatus == InitCmd /\ [][NextStatus]_vars

\* C34 as claimed: whatever commands ran, the status of every stored
\* record is one of open, in_progress, closed.
C34_StatusEnum ==
    \A id \in DOMAIN files :
        files[id].exists =>
            ParseFile(files, id).t.Status \in
                {StatusOpen, StatusInProgress, StatusClosed}

(***************************************************************************)
(* A link command and its own locks.                                       *)
(***************************************************************************)
\* C35 as claimed: a link add or link rm never waits for a lock that the
\* same invocation already holds, whatever its arguments, two arguments
\* that resolve to one record included.
C35_NoSelfWait ==
    \A p \in Linkers :
        pc[p] \in {"acquire", "acquire_wait"} => ~Holds(p, lpath[p])

(***************************************************************************)
(* cmd: kt dep tree (internal/cmd/dep.go: runDepTree, buildDepTree).       *)
(* The recursion of buildDepTree is the stack locked[p] of its calls, each *)
(* with the ID of its ticket and the deps its loop has still to visit; the *)
(* map seen is matches[p].  The store is at rest, so that Store.Get(depID) *)
(* is ParseFile of the record.                                             *)
(***************************************************************************)
MaxTreeDepth == 4    \* calls of buildDepTree in progress at one time

TreeFull(p) == op[p] = "dep tree --full"

\* A call buildDepTree(t, seen, full) starts.
TreeCall(stack, t) == Append(stack, [ID |-> t.ID, deps |-> t.Deps])

\* buildDepTree: `if !full && seen[t.ID] { return node }`, or the ticket is
\* marked as seen and the loop over t.Deps starts.
BuildDepTreeEnter(p) ==
    /\ pc[p] = "buildDepTree"
    /\ LET top == locked[p][Len(locked[p])]
       IN  IF ~TreeFull(p) /\ top.ID \in matches[p]
           THEN /\ locked' = [locked EXCEPT ![p] = SubSeq(@, 1, Len(@) - 1)]
                /\ UNCHANGED matches
           ELSE /\ matches' = [matches EXCEPT ![p] = @ \cup {top.ID}]
                /\ UNCHANGED locked
    /\ pc' = [pc EXCEPT ![p] = "buildDepTree_loop"]
    /\ UNCHANGED <<writeVars, locks, stk, lpath, lshared, err, aid, tk, lt, op,
                   fn, calls, part, todo, cmd, out, gate, ids, listed>>

\* buildDepTree: the loop over t.Deps of the innermost call.  After the
\* last dep the call returns its node; a dep that Store.Get does not find
\* gives a placeholder; any other dep gives a recursive call.  runDepTree
\* prints the tree when the outermost call has returned.
BuildDepTreeLoop(p) ==
    /\ pc[p] = "buildDepTree_loop"
    /\ IF locked[p] = <<>>
       THEN /\ pc' = [pc EXCEPT ![p] = "idle"]
            /\ matches' = [matches EXCEPT ![p] = {}]
            /\ UNCHANGED locked
       ELSE LET n == Len(locked[p])
                top == locked[p][n]
            IN  IF top.deps = <<>>
                THEN /\ locked' = [locked EXCEPT ![p] = SubSeq(@, 1, n - 1)]
                     /\ UNCHANGED <<pc, matches>>
                ELSE LET r == ParseFile(files, Head(top.deps))
                         rest == [locked[p] EXCEPT ![n].deps = Tail(@)]
                     IN  IF r.err # NoErr
                         THEN /\ locked' = [locked EXCEPT ![p] = rest]
                              /\ UNCHANGED <<pc, matches>>
                         ELSE /\ n < MaxTreeDepth
                              /\ locked' = [locked EXCEPT ![p] = TreeCall(rest, r.t)]
                              /\ pc' = [pc EXCEPT ![p] = "buildDepTree"]
                              /\ UNCHANGED matches
    /\ UNCHANGED <<writeVars, locks, stk, lpath, lshared, err, aid, tk, lt, op,
                   fn, calls, part, todo, cmd, out, gate, ids, listed>>

(***************************************************************************)
(* The tree specification: one caller of kt dep tree, with or without      *)
(* --full, on a store at rest with the records of TreeIds, each with any   *)
(* deps that kt dep add can give it: any of the stored records, itself     *)
(* included.                                                               *)
(***************************************************************************)
TreeIds == {<<"k", "a">>, <<"k", "b">>, <<"k", "c">>}

TreeClients == {1}

\* The deps that dep add can have appended, each at most once.
DepSeqs ==
    {q \in UNION {[1..n -> TreeIds] : n \in 0..2} : NoDuplicates(q)}

InitTree ==
    /\ InitProcs(TreeClients)
    /\ \E deps \in [TreeIds -> DepSeqs] :
          files = [i \in TreeIds |->
                     FileOf([NewTicket(i, StatusOpen, "", FALSE)
                                EXCEPT !.Deps = deps[i]])]
    /\ locks = {}
    /\ hist = <<>>
    /\ gate = <<>>

\* kt dep tree [--full] <id>: runDepTree, from the ticket Store.Resolve
\* found on: buildDepTree(t, seen, depTreeFull) with an empty seen.
runDepTree(p) ==
    /\ CanCall(p)
    /\ \E full \in BOOLEAN :
          Begin(p, IF full THEN "dep tree --full" ELSE "dep tree")
    /\ \E id \in TreeIds :
          locked' = [locked EXCEPT ![p] = TreeCall(<<>>, ParseFile(files, id).t)]
    /\ matches' = [matches EXCEPT ![p] = {}]
    /\ pc' = [pc EXCEPT ![p] = "buildDepTree"]
    /\ UNCHANGED <<writeVars, locks, stk, lpath, lshared, aid, tk, lt, fn, part,
                   todo, cmd, out, gate, ids, listed>>

NextTree ==
    \E p \in TreeClients :
        \/ runDepTree(p)
        \/ BuildDepTreeEnter(p)
        \/ BuildDepTreeLoop(p)

SpecTree == InitTree /\ [][NextTree]_vars

\* The tickets whose loop over deps is running: the calls in progress,
\* but for a call that has not passed the test of seen yet.
Expanding(p) ==
    LET n == IF pc[p] = "buildDepTree" THEN Len(locked[p]) - 1 ELSE Len(locked[p])
    IN  [i \in 1..n |-> locked[p][i].ID]

\* C36 as claimed: buildDepTree terminates on every graph of deps, cycles
\* and self-dependencies included, with and without --full.  On a store at
\* rest a call for a ticket inside the loop of a call for the same ticket
\* makes the same calls again, without end, and a recursion in which that
\* never happens is no deeper than the number of records: the claim is
\* that the loop of a ticket never runs inside the loop of that ticket.
C36_TreeTerminates ==
    \A p \in TreeClients : NoDuplicates(Expanding(p))

(***************************************************************************)
(* Store.Delete.                                                           *)
(***************************************************************************)
ErrRemove == <<"remove", "no such file or directory">>

\* Store.Delete(id), from the acquisition of the exclusive lock on.
CallDelete(p, id, rets) ==
    /\ aid' = [aid EXCEPT ![p] = id]
    /\ pc' = [pc EXCEPT ![p] = "acquire"]
    /\ stk' = [stk EXCEPT ![p] = <<"Delete_locked">> \o rets \o stk[p]]
    /\ lpath' = [lpath EXCEPT ![p] = lockPath(id)]
    /\ lshared' = [lshared EXCEPT ![p] = FALSE]

\* Store.Delete: the lock failed, or os.Remove removes the record file (an
\* error when there is none).
DeleteLocked(p) ==
    /\ pc[p] = "Delete_locked"
    /\ IF err[p] # NoErr
       THEN /\ Return(p, Wrap("acquire lock", err[p]))
            /\ aid' = [aid EXCEPT ![p] = <<>>]
            /\ UNCHANGED files
       ELSE /\ IF aid[p] \in DOMAIN files /\ files[aid[p]].exists
               THEN /\ files' = [files EXCEPT ![aid[p]] = NoFile]
                    /\ UNCHANGED err
               ELSE /\ err' = [err EXCEPT ![p] = ErrRemove]
                    /\ UNCHANGED files
            /\ pc' = [pc EXCEPT ![p] = "Delete_release"]
            /\ UNCHANGED <<stk, aid>>
    /\ UNCHANGED <<tmp, wpath, wdata, hist, locks, lpath, lshared, tk, lt, op, fn,
                   calls, cmdVars>>

\* Store.Delete: the deferred lock.Release, and the return of os.Remove's
\* error.
DeleteRelease(p) ==
    /\ pc[p] = "Delete_release"
    /\ locks' = Unlock(locks, p, lockPath(aid[p]))
    /\ aid' = [aid EXCEPT ![p] = <<>>]
    /\ Return(p, err[p])
    /\ UNCHANGED <<writeVars, lpath, lshared, tk, lt, op, fn, calls, cmdVars>>

(***************************************************************************)
(* The calls specification: the store specification with, next to its      *)
(* calls, Delete, List, Resolve and ResolveForUpdate of the record by its   *)
(* id or by a part of it.                                                   *)
(***************************************************************************)
\* Store.Delete(id).
DeleteCall(p) ==
    /\ CanCall(p)
    /\ Begin(p, "Delete")
    /\ \E id \in StoreIds : CallDelete(p, id, <<"idle">>)
    /\ tk' = [tk EXCEPT ![p] = NoTicket]
    /\ lt' = [lt EXCEPT ![p] = NoHandle]
    /\ fn' = [fn EXCEPT ![p] = ""]
    /\ UNCHANGED <<writeVars, locks, cmdVars>>

\* Store.Resolve(partial) / Store.ResolveForUpdate(partial).
StoreResolveCall(p) ==
    /\ CanCall(p)
    /\ \E partial \in {CmdPartial, RecId} :
          \/ /\ Begin(p, "Resolve")
             /\ CallResolve(p, partial, <<"idle">>)
          \/ /\ Begin(p, "ResolveForUpdate")
             /\ CallResolveForUpdate(p, partial, <<"idle">>)
    /\ UNCHANGED <<writeVars, locks, tk, lt, fn, batchVars, matches, todo, cmd,
                   out, gate>>

NextCalls ==
    \/ NextStore
    \/ \E p \in Procs :
          \/ DeleteCall(p)
          \/ DeleteLocked(p)
          \/ DeleteRelease(p)
          \/ ListCall(p)
          \/ ListGlob(p)
          \/ ListParse(p)
          \/ ListRelease(p)
          \/ StoreResolveCall(p)
          \/ ResolveExact(p)
          \/ ResolveGlob(p)
          \/ ResolveUnlock(p)
          \/ ResolveForUpdateResolved(p)

SpecCalls == InitStore /\ [][NextCalls]_vars

\* The locks p holds.
LocksOf(p) == {l \in locks : l.owner = p}

\* The lock of the handle of p, when it has one that was not released.
HandleLocks(p) ==
    IF lt[p].held THEN {LockEntry(p, lockPath(lt[p].id), FALSE)} ELSE {}

\* C37: when a store call has returned, on success and on every error, the
\* caller holds no lock that the call acquired: after List, Get, Resolve,
\* Save, Delete and Update, and after a GetForUpdate or ResolveForUpdate
\* that failed, it holds none at all, and the only lock it ever holds
\* between calls is that of a handle that was not released.
C37_NoLockOutlivesCall ==
    \A p \in Procs :
        pc[p] = "idle" =>
            /\ LocksOf(p) \subseteq HandleLocks(p)
            /\ (op[p] \in {"List", "Get", "Resolve", "Save", "Delete", "Update"}
                   => LocksOf(p) = {})
            /\ (op[p] \in {"GetForUpdate", "ResolveForUpdate"} /\ err[p] # NoErr
                   => LocksOf(p) = {})

\* A Save whose write failed has returned its error and holds nothing, while
\* another caller keeps the lock of the handle that GetForUpdate gave it.
C37_Witness ==
    \E p \in Procs : \E q \in Procs :
        /\ pc[p] = "idle" /\ op[p] = "Save"
        /\ err[p] # NoErr /\ Head(err[p]) \in {"aw_create", "aw_write", "aw_close", "aw_rename"}
        /\ LocksOf(p) = {}
        /\ pc[q] = "idle" /\ op[q] \in {"GetForUpdate", "ResolveForUpdate"}
        /\ LocksOf(q) = HandleLocks(q) /\ LocksOf(q) # {}

(***************************************************************************)
(* The removal specification: the dep specification with, next to its      *)
(* commands, Store.Delete of the record RecId.                             *)
(***************************************************************************)
NextRemove ==
    \/ NextDep
    \/ \E p \in DepWriters :
          \/ DeleteCall(p)
          \/ DeleteLocked(p)
          \/ DeleteRelease(p)

SpecRemove == InitDep /\ [][NextRemove]_vars

\* C38 as claimed: once the file of a record has been removed, no command
\* that read the record before the removal creates it again: without a
\* create, a record that is absent stays absent.
C38_RemovedStaysAbsent ==
    [][\A id \in PurgeIds : ~files[id].exists => ~files'[id].exists]_vars


(***************************************************************************)
(* A link add that fails before its saves.  runLinkAdd resolves every      *)
(* argument, then locks every id, then links and saves; a failure in the   *)
(* first two phases returns through the deferred loop over locked.         *)
(***************************************************************************)

\* The labels of the write path of AtomicWrite.
WriteLabels == {"aw_create", "aw_write", "aw_close", "aw_rename"}

\* The step of p is the return of runLinkAdd on an error of Resolve or of
\* GetForUpdate.
LinkAddFails(p) ==
    /\ cmd[p].name = "link add"
    /\ pc[p] \in {"runLinkAdd_resolved", "runLinkAdd_locked"}
    /\ err[p] # NoErr
    /\ pc'[p] = "idle"

InitRename ==
    /\ InitProcs(Procs)
    /\ \E stored \in BOOLEAN :
          /\ files = [i \in PurgeIds |->
                        IF i = RecId \/ stored
                        THEN FileOf(NewTicket(i, StatusOpen, "", FALSE))
                        ELSE NoFile]
          /\ hist = [i \in PurgeIds |->
                       IF i = RecId \/ stored
                       THEN {NewTicket(i, StatusOpen, "", FALSE)}
                       ELSE {}]
    /\ locks = {}
    /\ gate = <<>>

\* Store.Update(id, fn), fn one of "inc" and "setid".
RenameUpdateCall(p) ==
    /\ CanCall(p)
    /\ Begin(p, "Update")
    /\ \E id \in PurgeIds, f \in {"inc", "setid"} :
          /\ fn' = [fn EXCEPT ![p] = f]
          /\ CallGetForUpdate(p, id, <<"Update_fn", "idle">>)
    /\ tk' = [tk EXCEPT ![p] = NoTicket]
    /\ lt' = [lt EXCEPT ![p] = NoHandle]
    /\ UNCHANGED <<writeVars, locks, cmdVars>>

\* Store.GetForUpdate(id).
RenameGetForUpdateCall(p) ==
    /\ CanCall(p)
    /\ Begin(p, "GetForUpdate")
    /\ \E id \in PurgeIds : CallGetForUpdate(p, id, <<"idle">>)
    /\ tk' = [tk EXCEPT ![p] = NoTicket]
    /\ lt' = [lt EXCEPT ![p] = NoHandle]
    /\ fn' = [fn EXCEPT ![p] = ""]
    /\ UNCHANGED <<writeVars, locks, cmdVars>>

\* The caller sets the ID field of the handle's ticket (lt.Ticket.ID = ...).
SetIdCall(p) ==
    /\ HasHandle(p)
    /\ lt[p].held
    /\ lt[p].Ticket.ID # SetIdTarget
    /\ lt' = [lt EXCEPT ![p].Ticket.ID = SetIdTarget]
    /\ UNCHANGED <<writeVars, locks, pc, stk, lpath, lshared, err, aid, tk, op,
                   fn, calls, cmdVars>>

NextRename ==
    \E p \in Procs :
        \/ RenameUpdateCall(p)
        \/ RenameGetForUpdateCall(p)
        \/ SetIdCall(p)
        \/ ReleaseCall(p)
        \/ SaveAndReleaseCall(p)
        \/ SaveAndReleaseEntry(p)
        \/ SaveAndReleaseRelease(p)
        \/ GetForUpdateLocked(p)
        \/ GetForUpdateUnlock(p)
        \/ UpdateFn(p)
        \/ UpdateRelease(p)
        \/ AcquireTry(p)
        \/ AcquireRetry(p)
        \/ AcquireTimeout(p)
        \/ AwCreate(p)
        \/ AwWrite(p)
        \/ AwClose(p)
        \/ AwRename(p)
        \/ AwFail(p)

SpecRename == InitRename /\ [][NextRename]_vars

\* C40: whenever Update or SaveAndRelease is writing, the file it writes is
\* the record file of the id that was passed to GetForUpdate, and the
\* writer holds the exclusive lock of that id.
C40_WritesLockedRecord ==
    \A p \in Procs :
        pc[p] \in WriteLabels =>
            /\ wpath[p] = lt[p].id
            /\ HoldsExclusive(p, wpath[p])

=============================================================================
